---- MODULE Spec2Model ----
(***************************************************************************)
(* A model of the threaded chess program (SDL3 + Clay front end, minimax   *)
(* engine in a background thread).  The rules of the game (move            *)
(* predicates, legality filter, move generator, makeMove / unmakeMove) are *)
(* operators translated from the C functions; the consumer thread          *)
(* (SDL_AppEvent, SDL_AppIterate, SDL_AppQuit) and the engine thread       *)
(* (engine_thread_func) are actions.                                       *)
(***************************************************************************)
EXTENDS Integers, Sequences, FiniteSets, TLC

(* ---------------------------------------------------------------------- *)
(* PieceType (the enum's values)                                           *)
(* ---------------------------------------------------------------------- *)
EMPTY == 0
WHITE_PAWN == 1
WHITE_KNIGHT == 2
WHITE_BISHOP == 3
WHITE_ROOK == 4
WHITE_QUEEN == 5
WHITE_KING == 6
BLACK_PAWN == 7
BLACK_KNIGHT == 8
BLACK_BISHOP == 9
BLACK_ROOK == 10
BLACK_QUEEN == 11
BLACK_KING == 12

\* MoveList.moves[256]
MaxMoves == 256

\* const int maxDepth = 5 in engine_thread_func
maxDepth == 5

\* the value of the selection fields and of enPassantCol when there is none
NONE == -1

Rows == 0..7
Cols == 0..7

abs(x) == IF x < 0 THEN -x ELSE x

sgn(x) == IF x > 0 THEN 1 ELSE IF x < 0 THEN -1 ELSE 0

inBounds(r, c) == r >= 0 /\ r < 8 /\ c >= 0 /\ c < 8

isWhite(p) == p >= WHITE_PAWN /\ p <= WHITE_KING

isBlack(p) == p >= BLACK_PAWN /\ p <= BLACK_KING

sameColor(a, b) == (isWhite(a) /\ isWhite(b)) \/ (isBlack(a) /\ isBlack(b))

(* ---------------------------------------------------------------------- *)
(* Per-piece move predicates.  chess is a ChessState record; only its      *)
(* board is read here.                                                     *)
(* ---------------------------------------------------------------------- *)

\* The loop walks from the square after (fr,fc) in direction (dr,dc) up to,
\* not including, (tr,tc).  Its callers pass squares on one rank, file or
\* diagonal, so the walk has max(|tr-fr|,|tc-fc|) - 1 squares.
pathClear(chess, fr, fc, tr, tc) ==
    LET dr == sgn(tr - fr)
        dc == sgn(tc - fc)
        n  == IF abs(tr - fr) > abs(tc - fc) THEN abs(tr - fr) ELSE abs(tc - fc)
    IN  \A k \in 1..(n - 1) : chess.board[fr + k * dr][fc + k * dc] = EMPTY

knightMove(chess, fr, fc, tr, tc) ==
    LET dr == abs(tr - fr)
        dc == abs(tc - fc)
    IN  (dr = 2 /\ dc = 1) \/ (dr = 1 /\ dc = 2)

rookMove(chess, fr, fc, tr, tc) ==
    IF fr # tr /\ fc # tc THEN FALSE ELSE pathClear(chess, fr, fc, tr, tc)

bishopMove(chess, fr, fc, tr, tc) ==
    IF abs(fr - tr) # abs(fc - tc) THEN FALSE ELSE pathClear(chess, fr, fc, tr, tc)

queenMove(chess, fr, fc, tr, tc) ==
    rookMove(chess, fr, fc, tr, tc) \/ bishopMove(chess, fr, fc, tr, tc)

pawnMoveOneStep(chess, fr, fc, tr, tc) ==
    LET p   == chess.board[fr][fc]
        dir == IF isWhite(p) THEN 1 ELSE -1
    IN  \/ (fc = tc /\ tr = fr + dir /\ chess.board[tr][tc] = EMPTY)
        \/ (abs(tc - fc) = 1 /\ tr = fr + dir /\ chess.board[tr][tc] # EMPTY)

pawnMove(chess, fr, fc, tr, tc) ==
    LET p        == chess.board[fr][fc]
        dir      == IF isWhite(p) THEN 1 ELSE -1
        startRow == IF isWhite(p) THEN 1 ELSE 6
    IN  \/ (fc = tc /\ tr = fr + dir /\ chess.board[tr][tc] = EMPTY)
        \/ (fc = tc /\ fr = startRow /\ tr = fr + 2 * dir
              /\ chess.board[fr + dir][fc] = EMPTY /\ chess.board[tr][tc] = EMPTY)
        \/ (abs(tc - fc) = 1 /\ tr = fr + dir /\ chess.board[tr][tc] # EMPTY)

canPieceAttackSquare(chess, fr, fc, tr, tc) ==
    LET p == chess.board[fr][fc]
    IN  IF ~inBounds(tr, tc) THEN FALSE
        ELSE IF p = EMPTY THEN FALSE
        ELSE CASE p \in {WHITE_PAWN, BLACK_PAWN}     -> pawnMove(chess, fr, fc, tr, tc)
               [] p \in {WHITE_KNIGHT, BLACK_KNIGHT} -> knightMove(chess, fr, fc, tr, tc)
               [] p \in {WHITE_BISHOP, BLACK_BISHOP} -> bishopMove(chess, fr, fc, tr, tc)
               [] p \in {WHITE_ROOK, BLACK_ROOK}     -> rookMove(chess, fr, fc, tr, tc)
               [] p \in {WHITE_QUEEN, BLACK_QUEEN}   -> queenMove(chess, fr, fc, tr, tc)
               [] p \in {WHITE_KING, BLACK_KING}     -> (abs(fr - tr) <= 1 /\ abs(fc - tc) <= 1)
               [] OTHER                              -> FALSE

isSquareAttacked(chess, r, c, byWhite) ==
    \E fr \in Rows : \E fc \in Cols :
        LET p == chess.board[fr][fc]
        IN  /\ p # EMPTY
            /\ (byWhite => isWhite(p))
            /\ (~byWhite => isBlack(p))
            /\ canPieceAttackSquare(chess, fr, fc, r, c)

isKingInCheckByOwnSide(chess, whiteKing) ==
    LET king == IF whiteKing THEN WHITE_KING ELSE BLACK_KING
        ks   == {k \in 0..63 : chess.board[k \div 8][k % 8] = king}
    IN  IF ks = {} THEN FALSE
        ELSE LET k == CHOOSE x \in ks : \A y \in ks : x <= y
             IN  isSquareAttacked(chess, k \div 8, k % 8, whiteKing)

\* The scan is row-major and answers for the first king of the colour it
\* meets; with no such king on the board it answers false.
isKingInCheck(chess, whiteKing) ==
    LET king == IF whiteKing THEN WHITE_KING ELSE BLACK_KING
        ks   == {k \in 0..63 : chess.board[k \div 8][k % 8] = king}
    IN  IF ks = {} THEN FALSE
        ELSE LET k == CHOOSE x \in ks : \A y \in ks : x <= y
             IN  isSquareAttacked(chess, k \div 8, k % 8, ~whiteKing)

castlingRightNeverLost(chess, white, wing) == FALSE

\* the two flag tests of canCastle: the right to castle on this wing (0 the
\* king's, 1 the queen's) is lost
castlingRightLost(chess, white, wing) ==
    \/ white /\ chess.hasCastledWhite[wing]
    \/ ~white /\ chess.hasCastledBlack[wing]

castlingBetweenKingPath(fc, rookCol, step) ==
    IF step = 1 THEN (fc + 1)..(rookCol - 1) ELSE (rookCol + 2)..(fc - 1)

\* the columns canCastle's first loop visits: c = fc + step; c != rookCol;
\* c += step
castlingBetween(fc, rookCol, step) ==
    IF step = 1 THEN (fc + 1)..(rookCol - 1) ELSE (rookCol + 1)..(fc - 1)

canCastle(chess, fr, fc, tr, tc) ==
    LET king    == chess.board[fr][fc]
        white   == isWhite(king)
        rookCol == IF tc = 6 THEN 7 ELSE 0
        step    == IF tc > fc THEN 1 ELSE -1
        wing    == IF tc = 6 THEN 0 ELSE 1
        between == castlingBetween(fc, rookCol, step)
        \* c = fc; c != tc + step; c += step
        transit == IF step = 1 THEN fc..tc ELSE tc..fc
    IN  IF white /\ fr # 0 THEN FALSE
        ELSE IF ~white /\ fr # 7 THEN FALSE
        ELSE IF fc # 4 THEN FALSE
        ELSE IF castlingRightLost(chess, white, wing) THEN FALSE
        ELSE IF chess.board[fr][rookCol] # (IF white THEN WHITE_ROOK ELSE BLACK_ROOK) THEN FALSE
        ELSE IF \E c \in between : chess.board[fr][c] # EMPTY THEN FALSE
        ELSE IF isKingInCheck(chess, white) THEN FALSE
        ELSE IF \E c \in transit : isSquareAttacked(chess, fr, c, ~white) THEN FALSE
        ELSE TRUE

kingMove(chess, fr, fc, tr, tc) ==
    IF abs(fr - tr) <= 1 /\ abs(fc - tc) <= 1 THEN TRUE
    ELSE IF fr = tr /\ (tc = 6 \/ tc = 2) THEN canCastle(chess, fr, fc, tr, tc)
    ELSE FALSE

\* the piece-specific predicate isLegalMove's switch selects
pieceMove(chess, fr, fc, tr, tc) ==
    LET p == chess.board[fr][fc]
    IN  CASE p \in {WHITE_PAWN, BLACK_PAWN}     -> pawnMove(chess, fr, fc, tr, tc)
          [] p \in {WHITE_KNIGHT, BLACK_KNIGHT} -> knightMove(chess, fr, fc, tr, tc)
          [] p \in {WHITE_BISHOP, BLACK_BISHOP} -> bishopMove(chess, fr, fc, tr, tc)
          [] p \in {WHITE_ROOK, BLACK_ROOK}     -> rookMove(chess, fr, fc, tr, tc)
          [] p \in {WHITE_QUEEN, BLACK_QUEEN}   -> queenMove(chess, fr, fc, tr, tc)
          [] p \in {WHITE_KING, BLACK_KING}     -> kingMove(chess, fr, fc, tr, tc)
          [] OTHER                              -> FALSE

\* the scratch copy of isLegalMove: the piece displaced, nothing else changed
scratchCopy(chess, fr, fc, tr, tc) ==
    LET b1 == [chess.board EXCEPT ![tr][tc] = chess.board[fr][fc]]
        b2 == [b1 EXCEPT ![fr][fc] = EMPTY]
    IN  [chess EXCEPT !.board = b2]

leavesKingSafeAlways(chess, fr, fc, tr, tc) == TRUE

\* the last step of isLegalMove: the mover's king is not in check on the copy
leavesKingSafe(chess, fr, fc, tr, tc) ==
    \E copy \in {scratchCopy(chess, fr, fc, tr, tc)} :
        LET white == isWhite(copy.board[tr][tc])
        IN  ~isKingInCheck(copy, white)

isLegalMove(chess, fr, fc, tr, tc) ==
    IF ~inBounds(tr, tc) THEN FALSE
    ELSE LET p      == chess.board[fr][fc]
             target == chess.board[tr][tc]
         IN  IF p = EMPTY THEN FALSE
             ELSE IF sameColor(p, target) THEN FALSE
             ELSE IF ~pieceMove(chess, fr, fc, tr, tc) THEN FALSE
             ELSE leavesKingSafe(chess, fr, fc, tr, tc)

(* ---------------------------------------------------------------------- *)
(* Move generator                                                          *)
(* ---------------------------------------------------------------------- *)

promotesWhiteOnly(p, r2) == p = WHITE_PAWN /\ r2 = 7

\* (p == WHITE_PAWN && r2 == 7) || (p == BLACK_PAWN && r2 == 0)
promotes(p, r2) == (p = WHITE_PAWN /\ r2 = 7) \/ (p = BLACK_PAWN /\ r2 = 0)

\* Move mv = { r, c, r2, c2, board[r2][c2], false, false, false } followed by
\* the three classifications, as getAllMoves builds each Move of its list
classify(chess, r, c, r2, c2) ==
    LET p      == chess.board[r][c]
        isEP   == (p = WHITE_PAWN \/ p = BLACK_PAWN) /\ c # c2 /\ chess.board[r2][c2] = EMPTY
        capRow == IF isWhite(p) THEN r2 - 1 ELSE r2 + 1
    IN  [fromRow |-> r, fromCol |-> c, toRow |-> r2, toCol |-> c2,
         captured    |-> IF isEP THEN chess.board[capRow][c2] ELSE chess.board[r2][c2],
         isPromotion |-> promotes(p, r2),
         isEnPassant |-> isEP,
         isCastling  |-> (p = WHITE_KING \/ p = BLACK_KING) /\ c = 4 /\ abs(c2 - c) = 2]

\* squares in row-major order, as the two nested loop pairs visit them
SquareSeq == [i \in 1..64 |-> i - 1]

\* the one element of a singleton set: names a value that is computed once
Only(S) == CHOOSE x \in S : TRUE

getAllMoves(chess) ==
    LET own(k) == LET p == chess.board[k \div 8][k % 8]
                  IN  /\ p # EMPTY
                      /\ ~(chess.whiteToMove /\ isBlack(p))
                      /\ ~(~chess.whiteToMove /\ isWhite(p))
        pairs(srcs) ==
            [i \in 1..(Len(srcs) * 64) |-> <<srcs[((i - 1) \div 64) + 1], (i - 1) % 64>>]
        legal(pr) == isLegalMove(chess, pr[1] \div 8, pr[1] % 8, pr[2] \div 8, pr[2] % 8)
        all(ok) ==
            [i \in 1..Len(ok) |->
                classify(chess, ok[i][1] \div 8, ok[i][1] % 8, ok[i][2] \div 8, ok[i][2] % 8)]
    IN  Only({Only({IF Len(ok) > MaxMoves THEN SubSeq(all(ok), 1, MaxMoves) ELSE all(ok)
                      : ok \in {SelectSeq(pairs(srcs), legal)}})
                : srcs \in {SelectSeq(SquareSeq, own)}})

(* ---------------------------------------------------------------------- *)
(* Move application: makeMove / unmakeMove and the UndoInfo record         *)
(* ---------------------------------------------------------------------- *)

\* The UndoInfo makeMove fills in.  capturedRow and capturedCol are written
\* only for an en-passant move; otherwise they keep whatever the caller's
\* local held (NONE here) and unmakeMove does not read them.
makeMoveUndo(chess, move) ==
    LET moving == chess.board[move.fromRow][move.fromCol]
    IN  [hasCastledWhite |-> chess.hasCastledWhite,
         hasCastledBlack |-> chess.hasCastledBlack,
         enPassantCol    |-> chess.enPassantCol,
         capturedPiece   |-> move.captured,
         capturedRow     |-> IF move.isEnPassant
                             THEN (IF isWhite(moving) THEN move.toRow - 1 ELSE move.toRow + 1)
                             ELSE NONE,
         capturedCol     |-> IF move.isEnPassant THEN move.toCol ELSE NONE]

enPassantColOfAnyPawnMove(moving, move) ==
    IF moving = WHITE_PAWN \/ moving = BLACK_PAWN THEN move.fromCol ELSE NONE

\* enPassantCol = -1; if (pawn && abs(toRow - fromRow) == 2) enPassantCol =
\* move.fromCol, with moving already replaced by the queen on a promotion
enPassantColAfter(moving, move) ==
    IF (moving = WHITE_PAWN \/ moving = BLACK_PAWN) /\ abs(move.toRow - move.fromRow) = 2
    THEN move.fromCol
    ELSE NONE

\* The position after makeMove; the LET steps are the function's statements
\* in their order.
rookMovedFlagsForgotten(flags, move, homeRow) == flags

\* the flags of a side after one of its rooks has moved: leaving the h-file
\* corner of its home row sets flag 0, leaving the a-file corner flag 1
rookMovedFlags(flags, move, homeRow) ==
    [i \in 0..1 |->
        IF i = 0 /\ move.fromRow = homeRow /\ move.fromCol = 7 THEN TRUE
        ELSE IF i = 1 /\ move.fromRow = homeRow /\ move.fromCol = 0 THEN TRUE
        ELSE flags[i]]

makeMove(chess, move) ==
    LET moving0     == chess.board[move.fromRow][move.fromCol]
        wing        == IF move.toCol = 6 THEN 0 ELSE 1
        rookFromCol == IF move.toCol = 6 THEN 7 ELSE 0
        rookToCol   == IF move.toCol = 6 THEN 5 ELSE 3
        \* if (move.isCastling) { rook relocation; flag of the wing }
        b1  == IF move.isCastling
               THEN [[chess.board EXCEPT ![move.fromRow][rookToCol] =
                                             chess.board[move.fromRow][rookFromCol]]
                        EXCEPT ![move.fromRow][rookFromCol] = EMPTY]
               ELSE chess.board
        hw1 == IF move.isCastling /\ moving0 = WHITE_KING
               THEN [chess.hasCastledWhite EXCEPT ![wing] = TRUE]
               ELSE chess.hasCastledWhite
        hb1 == IF move.isCastling /\ moving0 # WHITE_KING
               THEN [chess.hasCastledBlack EXCEPT ![wing] = TRUE]
               ELSE chess.hasCastledBlack
        \* if (move.isEnPassant) remove the pawn one rank behind the destination
        capturedRow == IF isWhite(moving0) THEN move.toRow - 1 ELSE move.toRow + 1
        b2  == IF move.isEnPassant THEN [b1 EXCEPT ![capturedRow][move.toCol] = EMPTY] ELSE b1
        \* if (move.isPromotion) moving = queen
        moving == IF move.isPromotion
                  THEN (IF isWhite(moving0) THEN WHITE_QUEEN ELSE BLACK_QUEEN)
                  ELSE moving0
        ep  == enPassantColAfter(moving, move)
        hw2 == IF moving = WHITE_KING THEN [i \in 0..1 |-> TRUE]
               ELSE IF moving = BLACK_KING THEN hw1
               ELSE IF moving = WHITE_ROOK THEN rookMovedFlags(hw1, move, 0)
               ELSE hw1
        hb2 == IF moving = WHITE_KING THEN hb1
               ELSE IF moving = BLACK_KING THEN [i \in 0..1 |-> TRUE]
               ELSE IF moving = WHITE_ROOK THEN hb1
               ELSE IF moving = BLACK_ROOK THEN rookMovedFlags(hb1, move, 7)
               ELSE hb1
        b3  == [b2 EXCEPT ![move.toRow][move.toCol] = moving]
        b4  == [b3 EXCEPT ![move.fromRow][move.fromCol] = EMPTY]
    IN  [chess EXCEPT !.board = b4,
                      !.hasCastledWhite = hw2,
                      !.hasCastledBlack = hb2,
                      !.enPassantCol = ep,
                      !.whiteToMove = ~chess.whiteToMove]

unpromotedKeepsQueen(moving, move) == moving

\* if (move.isPromotion) moving = isWhite(moving) ? WHITE_PAWN : BLACK_PAWN
unpromoted(moving, move) ==
    IF move.isPromotion
    THEN (IF isWhite(moving) THEN WHITE_PAWN ELSE BLACK_PAWN)
    ELSE moving

\* unmakeMove with a non-null undo record (no caller passes NULL)
unmakeMove(chess, move, undo) ==
    LET moving0     == chess.board[move.toRow][move.toCol]
        moving      == unpromoted(moving0, move)
        rookFromCol == IF move.toCol = 6 THEN 7 ELSE 0
        rookToCol   == IF move.toCol = 6 THEN 5 ELSE 3
        b1 == [chess.board EXCEPT ![move.fromRow][move.fromCol] = moving]
        b2 == [b1 EXCEPT ![move.toRow][move.toCol] = undo.capturedPiece]
        b3 == IF move.isCastling
              THEN [[b2 EXCEPT ![move.fromRow][rookFromCol] = b2[move.fromRow][rookToCol]]
                       EXCEPT ![move.fromRow][rookToCol] = EMPTY]
              ELSE b2
        b4 == IF move.isEnPassant
              THEN [[b3 EXCEPT ![undo.capturedRow][undo.capturedCol] = undo.capturedPiece]
                       EXCEPT ![move.toRow][move.toCol] = EMPTY]
              ELSE b3
    IN  [chess EXCEPT !.whiteToMove = ~chess.whiteToMove,
                      !.board = b4,
                      !.hasCastledWhite = undo.hasCastledWhite,
                      !.hasCastledBlack = undo.hasCastledBlack,
                      !.enPassantCol = undo.enPassantCol]

(* ---------------------------------------------------------------------- *)
(* Positions                                                               *)
(* ---------------------------------------------------------------------- *)

\* a board from a set of <<row, col, piece>> placements (row 0 is rank 1,
\* col 0 is file a)
boardOf(placed) ==
    [r \in Rows |-> [c \in Cols |->
        IF \E x \in placed : x[1] = r /\ x[2] = c
        THEN (CHOOSE x \in placed : x[1] = r /\ x[2] = c)[3]
        ELSE EMPTY]]

\* a ChessState with the fields initChessState gives apart from the board,
\* the side to move and the castling flags
stateOf(placed, white, lostW, lostB) ==
    [board |-> boardOf(placed), whiteToMove |-> white,
     selectedRow |-> NONE, selectedCol |-> NONE, engineWhite |-> FALSE,
     hasCastledWhite |-> lostW, hasCastledBlack |-> lostB, enPassantCol |-> NONE]

Kept == [i \in 0..1 |-> FALSE]

Lost == [i \in 0..1 |-> TRUE]

initChessState ==
    stateOf({<<0, 0, WHITE_ROOK>>, <<0, 1, WHITE_KNIGHT>>, <<0, 2, WHITE_BISHOP>>,
             <<0, 3, WHITE_QUEEN>>, <<0, 4, WHITE_KING>>, <<0, 5, WHITE_BISHOP>>,
             <<0, 6, WHITE_KNIGHT>>, <<0, 7, WHITE_ROOK>>,
             <<7, 0, BLACK_ROOK>>, <<7, 1, BLACK_KNIGHT>>, <<7, 2, BLACK_BISHOP>>,
             <<7, 3, BLACK_QUEEN>>, <<7, 4, BLACK_KING>>, <<7, 5, BLACK_BISHOP>>,
             <<7, 6, BLACK_KNIGHT>>, <<7, 7, BLACK_ROOK>>}
            \cup {<<1, i, WHITE_PAWN>> : i \in Cols}
            \cup {<<6, i, BLACK_PAWN>> : i \in Cols},
            TRUE, Kept, Kept)

\* Middle-game and end-game positions of a game played from initChessState,
\* used as the positions the search is started from.
\* Kings and rooks at home with their rights, the wings cleared.
CastlePos ==
    stateOf({<<0, 4, WHITE_KING>>, <<0, 0, WHITE_ROOK>>, <<0, 7, WHITE_ROOK>>,
             <<1, 0, WHITE_PAWN>>, <<1, 7, WHITE_PAWN>>,
             <<7, 4, BLACK_KING>>, <<7, 0, BLACK_ROOK>>, <<7, 7, BLACK_ROOK>>,
             <<6, 0, BLACK_PAWN>>, <<6, 7, BLACK_PAWN>>},
            TRUE, Kept, Kept)

\* CastlePos with a black pawn on e2, where it attacks d1 and f1, and a
\* white pawn on e7, where it attacks d8 and f8.
PawnTransitPos ==
    stateOf({<<0, 4, WHITE_KING>>, <<0, 0, WHITE_ROOK>>, <<0, 7, WHITE_ROOK>>,
             <<1, 0, WHITE_PAWN>>, <<1, 7, WHITE_PAWN>>, <<6, 4, WHITE_PAWN>>,
             <<7, 4, BLACK_KING>>, <<7, 0, BLACK_ROOK>>, <<7, 7, BLACK_ROOK>>,
             <<6, 0, BLACK_PAWN>>, <<6, 7, BLACK_PAWN>>, <<1, 4, BLACK_PAWN>>},
            TRUE, Kept, Kept)

\* A white pawn on g7 that can promote on g8 or by capturing on h8, a black
\* pawn on b2 that can promote on b1 or by capturing on a1.
PromotionPos ==
    stateOf({<<0, 6, WHITE_KING>>, <<6, 6, WHITE_PAWN>>, <<0, 0, WHITE_KNIGHT>>,
             <<7, 2, BLACK_KING>>, <<7, 7, BLACK_ROOK>>, <<1, 1, BLACK_PAWN>>},
            TRUE, Lost, Lost)

\* Black to move with a pawn on d7 beside a white pawn on e5, and a white
\* pawn on a2 beside a black pawn on b4.
EnPassantPos ==
    stateOf({<<0, 6, WHITE_KING>>, <<4, 4, WHITE_PAWN>>, <<1, 0, WHITE_PAWN>>,
             <<7, 6, BLACK_KING>>, <<6, 3, BLACK_PAWN>>, <<3, 1, BLACK_PAWN>>},
            FALSE, Lost, Lost)

\* CastlePos with a knight on b1 and on b8: the queen's wing is blocked on
\* the one square the king does not cross.
BFileBlockedPos ==
    stateOf({<<0, 4, WHITE_KING>>, <<0, 0, WHITE_ROOK>>, <<0, 7, WHITE_ROOK>>,
             <<1, 0, WHITE_PAWN>>, <<1, 7, WHITE_PAWN>>, <<0, 1, WHITE_KNIGHT>>,
             <<7, 4, BLACK_KING>>, <<7, 0, BLACK_ROOK>>, <<7, 7, BLACK_ROOK>>,
             <<6, 0, BLACK_PAWN>>, <<6, 7, BLACK_PAWN>>, <<7, 1, BLACK_KNIGHT>>},
            TRUE, Kept, Kept)

\* Black to move can mate on the back rank with Re8-e1.
BackRankPos ==
    stateOf({<<0, 6, WHITE_KING>>, <<1, 5, WHITE_PAWN>>, <<1, 6, WHITE_PAWN>>,
             <<1, 7, WHITE_PAWN>>, <<7, 6, BLACK_KING>>, <<7, 4, BLACK_ROOK>>},
            FALSE, Lost, Lost)

\* BackRankPos after Re8-e1: white is mated
BackRankMatePos ==
    makeMove(BackRankPos,
             [fromRow |-> 7, fromCol |-> 4, toRow |-> 0, toCol |-> 4, captured |-> EMPTY,
              isPromotion |-> FALSE, isEnPassant |-> FALSE, isCastling |-> FALSE])

\* White to move can stalemate the king on h8 with Qg1-g6.
QueenEndingPos ==
    stateOf({<<6, 5, WHITE_KING>>, <<0, 6, WHITE_QUEEN>>, <<7, 7, BLACK_KING>>},
            TRUE, Lost, Lost)

\* QueenEndingPos after Qg1-g6: black has no move and is not in check
StalematePos ==
    makeMove(QueenEndingPos,
             [fromRow |-> 0, fromCol |-> 6, toRow |-> 5, toCol |-> 6, captured |-> EMPTY,
              isPromotion |-> FALSE, isEnPassant |-> FALSE, isCastling |-> FALSE])

\* Black to move with a bishop on b7 aimed at h1.  White's king and h1 rook
\* have not moved; white's other rook has left a1 and stands on h4, from
\* where it can recapture on h1.
RookTradePos ==
    stateOf({<<0, 4, WHITE_KING>>, <<0, 7, WHITE_ROOK>>, <<3, 7, WHITE_ROOK>>,
             <<7, 0, BLACK_KING>>, <<6, 1, BLACK_BISHOP>>},
            FALSE, [i \in 0..1 |-> i = 1], Lost)

SearchPositions ==
    {initChessState, CastlePos, PawnTransitPos, PromotionPos, EnPassantPos, BFileBlockedPos,
     BackRankPos, QueenEndingPos, RookTradePos}

\* how many plies deep the walk of the game tree goes
MaxPly == 2

\* The position of the live game at the start of a session and, to reach
\* castling, promotion and capture within a few moves, a later position of
\* it: white (the human) can castle short, push the h-pawn or promote by
\* capturing on h8; black (the engine) has its king on a8 behind a blocked
\* a-pawn and a knight on h8.
LiveEndgamePos ==
    stateOf({<<0, 4, WHITE_KING>>, <<0, 7, WHITE_ROOK>>, <<1, 7, WHITE_PAWN>>,
             <<6, 6, WHITE_PAWN>>, <<5, 0, WHITE_PAWN>>,
             <<7, 0, BLACK_KING>>, <<6, 0, BLACK_PAWN>>, <<7, 7, BLACK_KNIGHT>>},
            TRUE, Kept, Lost)

LivePositions == {initChessState, LiveEndgamePos}

\* the squares the user clicks on: e1, f1, g1, h1, h2, h4, g6, g7, h8
ClickSquares ==
    {<<0, 4>>, <<0, 5>>, <<0, 6>>, <<0, 7>>, <<1, 7>>, <<3, 7>>, <<5, 6>>, <<6, 6>>,
     <<7, 7>>}

\* how many moves the human makes in a session
MaxHumanMoves == 2

isStalemateWithoutMoves(chess) == Len(getAllMoves(chess)) = 0

isCheckmate(chess) ==
    IF ~isKingInCheck(chess, chess.whiteToMove) THEN FALSE
    ELSE Len(getAllMoves(chess)) = 0

isStalemate(chess) ==
    IF isKingInCheck(chess, chess.whiteToMove) THEN FALSE
    ELSE Len(getAllMoves(chess)) = 0

\* Move empty = {0}
emptyMove ==
    [fromRow |-> 0, fromCol |-> 0, toRow |-> 0, toCol |-> 0, captured |-> EMPTY,
     isPromotion |-> FALSE, isEnPassant |-> FALSE, isCastling |-> FALSE]

\* What findBestMove(chess, depth, engine) can return.  With no legal move it
\* returns the zeroed Move; otherwise bestMove starts as moves[0] and is only
\* ever replaced by another element of moves.  Which element depends on the
\* minimax scores; every element is allowed here, for every depth.
findBestMoveResults(chess) ==
    UNION {IF Len(moves) = 0 THEN {emptyMove} ELSE {moves[i] : i \in 1..Len(moves)}
             : moves \in {getAllMoves(chess)}}

(* ---------------------------------------------------------------------- *)
(* The search: evaluateMaterial, minimax, findBestMove.  minimax and       *)
(* findBestMove work on the position in place (makeMove, recurse,          *)
(* unmakeMove), so each returns, with its C result, the position it leaves *)
(* behind and the number of minimax calls it made (the nodesSearched       *)
(* increments).                                                            *)
(* ---------------------------------------------------------------------- *)
PIECE_VALUES ==
    LET values == <<0, 1, 3, 4, 5, 9, 0, 1, 3, 4, 5, 9, 0>>
    IN  [p \in 0..12 |-> values[p + 1]]

\* the score of a side without a move that is in check, and the start
\* values of the running best
mateScore == 10000

squareValueForWhite(chess, whitePerspective, row, col) ==
    LET p   == chess.board[row][col]
        val == PIECE_VALUES[p]
    IN  IF p = EMPTY THEN 0 ELSE IF isWhite(p) THEN val ELSE -val

\* what one square adds to evaluateMaterial's score
squareValue(chess, whitePerspective, row, col) ==
    LET p   == chess.board[row][col]
        val == PIECE_VALUES[p]
    IN  IF p = EMPTY THEN 0
        ELSE IF isWhite(p) THEN (IF whitePerspective THEN val ELSE -val)
        ELSE (IF whitePerspective THEN -val ELSE val)

\* evaluateMaterial's inner loop over the columns of a row
rowValue(chess, whitePerspective, row) ==
      squareValue(chess, whitePerspective, row, 0) + squareValue(chess, whitePerspective, row, 1)
    + squareValue(chess, whitePerspective, row, 2) + squareValue(chess, whitePerspective, row, 3)
    + squareValue(chess, whitePerspective, row, 4) + squareValue(chess, whitePerspective, row, 5)
    + squareValue(chess, whitePerspective, row, 6) + squareValue(chess, whitePerspective, row, 7)

evaluateMaterial(chess, whitePerspective) ==
      rowValue(chess, whitePerspective, 0) + rowValue(chess, whitePerspective, 1)
    + rowValue(chess, whitePerspective, 2) + rowValue(chess, whitePerspective, 3)
    + rowValue(chess, whitePerspective, 4) + rowValue(chess, whitePerspective, 5)
    + rowValue(chess, whitePerspective, 6) + rowValue(chess, whitePerspective, 7)

improvesOrTies(maximising, score, bound) ==
    IF maximising THEN score >= bound ELSE score <= bound

\* if (score > best) in the maximising loops, if (score < best) in the
\* minimising ones
improves(maximising, score, bound) ==
    IF maximising THEN score > bound ELSE score < bound

terminalScoreAlwaysMate(chess, whitePerspective) ==
    IF whitePerspective THEN -mateScore ELSE mateScore

\* what minimax returns for a position without a legal move
terminalScore(chess, whitePerspective) ==
    IF isKingInCheck(chess, chess.whiteToMove)
    THEN (IF whitePerspective THEN -mateScore ELSE mateScore)
    ELSE 0

\* the whitePerspective argument of the minimax call ply moves below
\* findBestMove's position: false below a white root and true below a black
\* root for the first ply, then !whitePerspective for each further ply
callFlag(rootWhite, ply) == IF ply % 2 = 1 THEN ~rootWhite ELSE rootWhite

RECURSIVE minimax(_, _, _)
RECURSIVE minimaxLoop(_, _, _, _, _, _)

\* one pass of minimax's loop body, for moves[i]: run is the position, the
\* running best and the node count before it, the result those after it
minimaxBody(run, moves, i, depth, whitePerspective) ==
    Only({[chess |-> unmakeMove(r.chess, moves[i], makeMoveUndo(run.chess, moves[i])),
           best  |-> IF improves(whitePerspective, r.score, run.best) THEN r.score ELSE run.best,
           nodes |-> run.nodes + r.nodes]
            : r \in {minimax(makeMove(run.chess, moves[i]), depth - 1, ~whitePerspective)}})

\* minimax's for loop over moves[lo..hi], in order: the first half of the
\* range, then the second half from where the first half ended
minimaxLoop(run, moves, lo, hi, depth, whitePerspective) ==
    IF lo > hi THEN run
    ELSE IF lo = hi THEN minimaxBody(run, moves, lo, depth, whitePerspective)
    ELSE Only({minimaxLoop(half, moves, ((lo + hi) \div 2) + 1, hi, depth, whitePerspective)
                 : half \in {minimaxLoop(run, moves, lo, (lo + hi) \div 2, depth,
                                         whitePerspective)}})

minimax(chess, depth, whitePerspective) ==
    IF depth = 0
    THEN [score |-> evaluateMaterial(chess, whitePerspective), chess |-> chess, nodes |-> 1]
    ELSE Only({IF Len(moves) = 0
               THEN [score |-> terminalScore(chess, whitePerspective),
                     chess |-> chess, nodes |-> 1]
               ELSE Only({[score |-> end.best, chess |-> end.chess, nodes |-> end.nodes]
                            : end \in {Only({minimaxLoop(start, moves, 1, Len(moves), depth,
                                                         whitePerspective)
                                          : start \in {[chess |-> chess,
                                                        best  |-> IF whitePerspective
                                                                  THEN -mateScore ELSE mateScore,
                                                        nodes |-> 1]}})}})
                 : moves \in {getAllMoves(chess)}})

\* one pass of findBestMove's loop body, for moves[i]; white is
\* chess->whiteToMove as read before the loops
findBestBody(run, moves, i, depth, white) ==
    Only({[chess    |-> unmakeMove(r.chess, moves[i], makeMoveUndo(run.chess, moves[i])),
           bestEval |-> IF improves(white, r.score, run.bestEval) THEN r.score ELSE run.bestEval,
           bestMove |-> IF improves(white, r.score, run.bestEval) THEN moves[i] ELSE run.bestMove,
           nodes    |-> run.nodes + r.nodes]
            : r \in {minimax(makeMove(run.chess, moves[i]), depth - 1, ~white)}})

RECURSIVE findBestLoop(_, _, _, _, _, _)
\* findBestMove's for loop over moves[lo..hi], in order
findBestLoop(run, moves, lo, hi, depth, white) ==
    IF lo > hi THEN run
    ELSE IF lo = hi THEN findBestBody(run, moves, lo, depth, white)
    ELSE Only({findBestLoop(half, moves, ((lo + hi) \div 2) + 1, hi, depth, white)
                 : half \in {findBestLoop(run, moves, lo, (lo + hi) \div 2, depth, white)}})

findBestMove(chess, depth) ==
    Only({IF Len(moves) = 0
          THEN [move |-> emptyMove, chess |-> chess, nodes |-> 0]
          ELSE Only({[move |-> end.bestMove, chess |-> end.chess, nodes |-> end.nodes]
                       : end \in {Only({findBestLoop(start, moves, 1, Len(moves), depth,
                                                     chess.whiteToMove)
                                     : start \in {[chess    |-> chess,
                                                   bestEval |-> IF chess.whiteToMove
                                                                THEN -mateScore ELSE mateScore,
                                                   bestMove |-> moves[1],
                                                   nodes    |-> 0]}})}})
            : moves \in {getAllMoves(chess)}})

(* ---------------------------------------------------------------------- *)
(* The pieces of the consumer's handlers                                   *)
(* ---------------------------------------------------------------------- *)

engineTurnNever(chess) == FALSE

\* SDL_AppEvent's first test of a left click: the engine's turn, the click
\* is dropped
engineTurn(chess) == chess.whiteToMove = chess.engineWhite

hasSelection(selR, selC) == selR >= 0 /\ selC >= 0

selectableAny(chess, clickedPiece) == clickedPiece # EMPTY

\* the test both selection branches make before a square becomes the selection
selectable(chess, clickedPiece) ==
    /\ clickedPiece # EMPTY
    /\ \/ chess.whiteToMove /\ ~isBlack(clickedPiece)
       \/ ~chess.whiteToMove /\ isBlack(clickedPiece)

\* the Move the click handler builds for a legal destination click
clickMove(chess, selR, selC, row, col) ==
    LET moving == chess.board[selR][selC]
        move0  == [fromRow |-> selR, fromCol |-> selC, toRow |-> row, toCol |-> col,
                   captured |-> chess.board[row][col],
                   isPromotion |-> FALSE, isEnPassant |-> FALSE, isCastling |-> FALSE]
        move1  == IF (moving = WHITE_KING \/ moving = BLACK_KING) /\ selC = 4
                     /\ abs(col - selC) = 2
                  THEN [move0 EXCEPT !.isCastling = TRUE] ELSE move0
        move2  == IF promotes(moving, row)
                  THEN [move1 EXCEPT !.isPromotion = TRUE] ELSE move1
        capRow == IF isWhite(moving) THEN row - 1 ELSE row + 1
    IN  IF (moving = WHITE_PAWN \/ moving = BLACK_PAWN) /\ selC # col
           /\ chess.board[row][col] = EMPTY
        THEN [move2 EXCEPT !.isEnPassant = TRUE, !.captured = chess.board[capRow][col]]
        ELSE move2

\* renderChessBoard, run by every SDL_AppIterate before it polls: the
\* arguments <<fr, fc, tr, tc>> of its isLegalMove calls, one per square.
\* The calls only pick the colour a square is drawn in.
renderCalls(chess) ==
    {<<chess.selectedRow, chess.selectedCol, row, col>> : row \in Rows, col \in Cols}

\* the arguments of the isLegalMove call of a left click on (row, col), made
\* on the human's turn with a selection other than the clicked square
clickCalls(chess, row, col) ==
    IF /\ ~engineTurn(chess)
       /\ hasSelection(chess.selectedRow, chess.selectedCol)
       /\ ~(chess.selectedRow = row /\ chess.selectedCol = col)
    THEN {<<chess.selectedRow, chess.selectedCol, row, col>>}
    ELSE {}

deepeningOnce(dd) == dd <= 1

\* the condition of the worker's for loop: d <= maxDepth
deepening(dd) == dd <= maxDepth

pollSlotMissesResult(has, result) ==
    [engineReady |-> FALSE, engineMoveLocal |-> emptyMove, hasMove |-> has]

pollSlotKeepsFlag(has, result) ==
    IF has THEN [engineReady |-> TRUE, engineMoveLocal |-> result, hasMove |-> has]
    ELSE [engineReady |-> FALSE, engineMoveLocal |-> emptyMove, hasMove |-> has]

pollSlotAlwaysReady(has, result) ==
    [engineReady |-> TRUE, engineMoveLocal |-> result, hasMove |-> FALSE]

\* SDL_AppIterate's critical section: the locals and the flag after it
pollSlot(has, result) ==
    IF has THEN [engineReady |-> TRUE, engineMoveLocal |-> result, hasMove |-> FALSE]
    ELSE [engineReady |-> FALSE, engineMoveLocal |-> emptyMove, hasMove |-> has]

WaitThreadAtOnce(w) == TRUE

\* SDL_WaitThread returns once the thread function has returned
WaitThreadReturns(w) == w = "returned"

(* ---------------------------------------------------------------------- *)
(* State                                                                   *)
(* ---------------------------------------------------------------------- *)
VARIABLES
    chess,           \* state->chess, the live ChessState
    thread,          \* state->engine.thread: "NULL" or "engine"
    mutex,           \* state->engine.mutex: "free", held by "consumer" or
                     \* "worker", or "destroyed"
    hasMove,         \* state->engine.hasMove
    resultMove,      \* state->engine.resultMove
    nodesSearched,   \* progress.nodesSearched: 0, or 1 for any count above 0
    depthCompleted,  \* progress.depthCompleted
    searching,       \* progress.searching
    cpc,             \* where the consumer (main) thread is
    engineMoveLocal, \* SDL_AppIterate's local
    engineReady,     \* SDL_AppIterate's local
    wpc,             \* where the engine thread is; "none" when there is none
    snapshot,        \* engine_thread_func's local ChessState, the one searched
    best,            \* engine_thread_func's local Move
    d,               \* engine_thread_func's loop variable
    candidates,      \* the moves findBestMove can return for the snapshot
    frames,          \* the search's stack: per ply the Move m, the UndoInfo u
                     \* and, for the round-trip check, the position before
    lastUndone,      \* <<frame>> after an unmakeMove (the frame popped), else <<>>
    \* history, read by the properties only
    workers,         \* engine threads created and not yet joined
    spawned,         \* engine threads created so far
    posAtSpawn,      \* the live position when the last worker was created
    published,       \* the results the workers wrote to the handoff slot
    delivered,       \* the results the polls took from it
    accepted,        \* <<[before, move]>> of the last click that made a move
    clickOutcome,    \* what the last click did, and whether a worker was
                     \* outstanding then
    humanMoves,      \* moves made by clicks
    kingMoved        \* the sides whose king a makeMove on the live position
                     \* has moved

handoffVars == <<hasMove, resultMove>>

progressVars == <<nodesSearched, depthCompleted, searching>>

workerVars == <<wpc, snapshot, best, d, candidates>>

searchVars == <<frames, lastUndone>>

historyVars == <<workers, spawned, posAtSpawn, published, delivered, accepted, clickOutcome,
                 humanMoves, kingMoved>>

liveVars == <<chess, thread, mutex, handoffVars, progressVars, cpc, engineMoveLocal,
              engineReady, wpc, best, d, candidates, historyVars>>

vars == <<liveVars, snapshot, searchVars>>

\* SDL_AppInit: the state after construction, for a given live position
AppInit(position) ==
    /\ chess = position
    /\ thread = "NULL"
    /\ mutex = "free"
    /\ hasMove = FALSE
    /\ resultMove = emptyMove
    /\ nodesSearched = 0
    /\ depthCompleted = 0
    /\ searching = 0
    /\ cpc = "idle"
    /\ engineMoveLocal = emptyMove
    /\ engineReady = FALSE
    /\ wpc = "none"
    /\ best = emptyMove
    /\ d = 0
    /\ candidates = {}
    /\ workers = 0
    /\ spawned = 0
    /\ posAtSpawn = position
    /\ published = <<>>
    /\ delivered = <<>>
    /\ accepted = <<>>
    /\ clickOutcome = [what |-> "none", outstanding |-> FALSE]
    /\ humanMoves = 0
    /\ kingMoved = {}

(* ---------------------------------------------------------------------- *)
(* The search's walk: makeMove(chess, m, &u); recurse; unmakeMove(chess,   *)
(* m, &u), for every m of getAllMoves, as minimax and findBestMove do.     *)
(* ---------------------------------------------------------------------- *)
SearchInit ==
    /\ AppInit(initChessState)
    /\ snapshot \in SearchPositions
    /\ frames = <<>>
    /\ lastUndone = <<>>

SearchMake ==
    /\ lastUndone = <<>>
    /\ Len(frames) < MaxPly
    /\ \E moves \in {getAllMoves(snapshot)} : \E i \in 1..Len(moves) :
          /\ frames' = <<[m |-> moves[i], u |-> makeMoveUndo(snapshot, moves[i]),
                          before |-> snapshot]>> \o frames
          /\ snapshot' = makeMove(snapshot, moves[i])
    /\ lastUndone' = <<>>
    /\ UNCHANGED liveVars

SearchUnmake ==
    /\ lastUndone = <<>>
    /\ frames # <<>>
    /\ snapshot' = unmakeMove(snapshot, Head(frames).m, Head(frames).u)
    /\ frames' = Tail(frames)
    /\ lastUndone' = <<Head(frames)>>
    /\ UNCHANGED liveVars

\* the loop body ends (the score is compared, m and u go out of scope) and
\* the loop goes on to its next move or ends
SearchLoop ==
    /\ lastUndone # <<>>
    /\ lastUndone' = <<>>
    /\ UNCHANGED <<liveVars, snapshot, frames>>

SearchNext == SearchMake \/ SearchUnmake \/ SearchLoop

SpecSearch == SearchInit /\ [][SearchNext]_vars

(* ---------------------------------------------------------------------- *)
(* The worker's iterative deepening with the search itself: the body of    *)
(* engine_thread_func up to the end of its for loop, on a game position    *)
(* drawn from a bounded set, and with the loop cut at MaxSearchDepth.      *)
(* ---------------------------------------------------------------------- *)
\* the deepest findBestMove call the loop makes here
MaxSearchDepth == 2

\* the positions one move after pos
OneMoveFrom(pos) ==
    UNION {{makeMove(pos, moves[i]) : i \in 1..Len(moves)} : moves \in {getAllMoves(pos)}}

\* the sparse positions, whose game trees stay small
EndgamePositions == {PromotionPos, EnPassantPos, BackRankPos, QueenEndingPos}

EnginePositions ==
    {initChessState} \cup EndgamePositions
        \cup UNION {OneMoveFrom(pos) : pos \in EndgamePositions}

EngineInit ==
    /\ \E position \in EnginePositions : AppInit(position)
    /\ snapshot = initChessState
    /\ frames = <<>>
    /\ lastUndone = <<>>

engineIdle == <<chess, thread, mutex, handoffVars, searching, cpc, engineMoveLocal,
                engineReady, wpc, candidates, historyVars, searchVars>>

\* snapshot = state->chess; Move best = {0}; d = 1
EngineCopy ==
    /\ d = 0
    /\ snapshot' = chess
    /\ best' = emptyMove
    /\ d' = 1
    /\ UNCHANGED <<engineIdle, nodesSearched, depthCompleted>>

\* best = findBestMove(&snapshot, d, engine); depthCompleted = d; d++
EngineDeepen ==
    /\ d >= 1
    /\ d <= MaxSearchDepth
    /\ \E r \in {findBestMove(snapshot, d)} :
          /\ best' = r.move
          /\ snapshot' = r.chess
          /\ nodesSearched' = nodesSearched + r.nodes
    /\ depthCompleted' = d
    /\ d' = d + 1
    /\ UNCHANGED engineIdle

EngineNext == EngineCopy \/ EngineDeepen

SpecEngine == EngineInit /\ [][EngineNext]_vars

(* ---------------------------------------------------------------------- *)
(* The running application: the consumer (main thread: SDL_AppEvent,       *)
(* SDL_AppIterate, SDL_AppQuit) and the engine thread.  One action per     *)
(* stretch of code between two points where the threads meet (the mutex,   *)
(* thread creation and join).                                              *)
(* ---------------------------------------------------------------------- *)
searchIdle == <<snapshot, frames, lastUndone>>

\* the side whose king the piece p is, as a set
kingOf(p) ==
    IF p = WHITE_KING THEN {"white"} ELSE IF p = BLACK_KING THEN {"black"} ELSE {}

workerSide == <<wpc, best, d, candidates, nodesSearched, depthCompleted, searching, published>>

Init ==
    /\ \E position \in LivePositions : AppInit(position)
    /\ snapshot = chess
    /\ frames = <<>>
    /\ lastUndone = <<>>

\* SDL_EVENT_MOUSE_BUTTON_DOWN, left button, pointer over square (row, col):
\* the handler up to the point where it asks for the mutex
Click(row, col) ==
    /\ cpc = "idle"
    /\ LET clickedPiece == chess.board[row][col]
           selR == chess.selectedRow
           selC == chess.selectedCol
           did(what) == clickOutcome' = [what |-> what, outstanding |-> thread # "NULL"]
       IN  IF engineTurn(chess)
           THEN /\ did("engine_turn")
                /\ UNCHANGED <<chess, cpc, accepted, humanMoves, kingMoved>>
           ELSE IF hasSelection(selR, selC)
           THEN IF selR = row /\ selC = col
                THEN /\ chess' = [chess EXCEPT !.selectedRow = NONE, !.selectedCol = NONE]
                     /\ did("deselected")
                     /\ UNCHANGED <<cpc, accepted, humanMoves, kingMoved>>
                ELSE IF isLegalMove(chess, selR, selC, row, col)
                THEN /\ humanMoves < MaxHumanMoves
                     /\ \E move \in {clickMove(chess, selR, selC, row, col)} :
                           /\ chess' = [makeMove(chess, move) EXCEPT
                                           !.selectedRow = NONE, !.selectedCol = NONE]
                           /\ accepted' = <<[before |-> chess, move |-> move]>>
                     /\ humanMoves' = humanMoves + 1
                     /\ kingMoved' = kingMoved \cup kingOf(chess.board[selR][selC])
                     /\ did("moved")
                     /\ cpc' = "ev_lock"
                ELSE IF selectable(chess, clickedPiece)
                THEN /\ chess' = [chess EXCEPT !.selectedRow = row, !.selectedCol = col]
                     /\ did("selected")
                     /\ UNCHANGED <<cpc, accepted, humanMoves, kingMoved>>
                ELSE /\ chess' = [chess EXCEPT !.selectedRow = NONE, !.selectedCol = NONE]
                     /\ did("cleared")
                     /\ UNCHANGED <<cpc, accepted, humanMoves, kingMoved>>
           ELSE IF selectable(chess, clickedPiece)
           THEN /\ chess' = [chess EXCEPT !.selectedRow = row, !.selectedCol = col]
                /\ did("selected")
                /\ UNCHANGED <<cpc, accepted, humanMoves, kingMoved>>
           ELSE /\ did("ignored")
                /\ UNCHANGED <<chess, cpc, accepted, humanMoves, kingMoved>>
    /\ UNCHANGED <<thread, mutex, handoffVars, engineMoveLocal, engineReady, workerSide,
                   workers, spawned, posAtSpawn, delivered, searchIdle>>

\* SDL_LockMutex after the human's move
EventLock ==
    /\ cpc = "ev_lock"
    /\ mutex = "free"
    /\ mutex' = "consumer"
    /\ cpc' = "ev_spawn"
    /\ UNCHANGED <<chess, thread, handoffVars, engineMoveLocal, engineReady, workerSide,
                   historyVars, searchIdle>>

\* if (thread == NULL) { hasMove = false; thread = SDL_CreateThread(...); },
\* which can fail and leave thread NULL
EventSpawn ==
    /\ cpc = "ev_spawn"
    /\ cpc' = "ev_unlock"
    /\ IF thread = "NULL"
       THEN /\ hasMove' = FALSE
            /\ \E created \in BOOLEAN :
                  IF created
                  THEN /\ thread' = "engine"
                       /\ wpc' = "start"
                       /\ workers' = workers + 1
                       /\ spawned' = spawned + 1
                       /\ posAtSpawn' = chess
                  ELSE UNCHANGED <<thread, wpc, workers, spawned, posAtSpawn>>
       ELSE UNCHANGED <<hasMove, thread, wpc, workers, spawned, posAtSpawn>>
    /\ UNCHANGED <<chess, mutex, resultMove, engineMoveLocal, engineReady, best, d, candidates,
                   progressVars, published, delivered, accepted, clickOutcome,
                   humanMoves, kingMoved, searchIdle>>

\* SDL_UnlockMutex and the rest of the handler, which only prints
EventUnlock ==
    /\ cpc = "ev_unlock"
    /\ mutex' = "free"
    /\ cpc' = "idle"
    /\ UNCHANGED <<chess, thread, handoffVars, engineMoveLocal, engineReady, workerSide,
                   historyVars, searchIdle>>

\* SDL_AppIterate after rendering: the locals are initialised and the mutex
\* is asked for
IterLock ==
    /\ cpc = "idle"
    /\ mutex = "free"
    /\ mutex' = "consumer"
    /\ engineReady' = FALSE
    /\ engineMoveLocal' = emptyMove
    /\ cpc' = "it_poll"
    /\ UNCHANGED <<chess, thread, handoffVars, workerSide, historyVars, searchIdle>>

\* if (hasMove) { engineMoveLocal = resultMove; hasMove = false; engineReady = true; }
IterPoll ==
    /\ cpc = "it_poll"
    /\ \E slot \in {pollSlot(hasMove, resultMove)} :
          /\ engineReady' = slot.engineReady
          /\ engineMoveLocal' = slot.engineMoveLocal
          /\ hasMove' = slot.hasMove
          /\ delivered' = IF slot.engineReady THEN Append(delivered, slot.engineMoveLocal)
                          ELSE delivered
    /\ cpc' = "it_unlock"
    /\ UNCHANGED <<chess, thread, mutex, resultMove, workerSide, workers, spawned,
                   posAtSpawn, accepted, clickOutcome, humanMoves, kingMoved, searchIdle>>

\* SDL_UnlockMutex; without a result the handler returns
IterUnlock ==
    /\ cpc = "it_unlock"
    /\ mutex' = "free"
    /\ cpc' = IF engineReady THEN "it_apply" ELSE "idle"
    /\ UNCHANGED <<chess, thread, handoffVars, engineMoveLocal, engineReady, workerSide,
                   historyVars, searchIdle>>

\* makeMove(&state->chess, engineMoveLocal, &undo)
IterApply ==
    /\ cpc = "it_apply"
    /\ chess' = makeMove(chess, engineMoveLocal)
    /\ kingMoved' = kingMoved \cup
                       kingOf(chess.board[engineMoveLocal.fromRow][engineMoveLocal.fromCol])
    /\ IF thread # "NULL"
       THEN cpc' = "it_join" /\ UNCHANGED <<engineMoveLocal, engineReady>>
       ELSE cpc' = "idle" /\ engineMoveLocal' = emptyMove /\ engineReady' = FALSE
    /\ UNCHANGED <<thread, mutex, handoffVars, workerSide, workers, spawned, posAtSpawn,
                   delivered, accepted, clickOutcome, humanMoves, searchIdle>>

\* SDL_WaitThread(thread); thread = NULL; the rest of the handler only prints
IterJoin ==
    /\ cpc = "it_join"
    /\ WaitThreadReturns(wpc)
    /\ thread' = "NULL"
    /\ wpc' = IF wpc = "returned" THEN "none" ELSE wpc
    /\ workers' = workers - 1
    /\ cpc' = "idle"
    /\ engineMoveLocal' = emptyMove
    /\ engineReady' = FALSE
    /\ UNCHANGED <<chess, mutex, handoffVars, best, d, candidates, progressVars, published, spawned,
                   posAtSpawn, delivered, accepted, clickOutcome, humanMoves, kingMoved, searchIdle>>

\* SDL_EVENT_QUIT: SDL_AppEvent returns SDL_APP_SUCCESS and SDL_AppQuit runs
Quit ==
    /\ cpc = "idle"
    /\ cpc' = "quit_join"
    /\ UNCHANGED <<chess, thread, mutex, handoffVars, engineMoveLocal, engineReady,
                   workerSide, historyVars, searchIdle>>

\* if (thread) SDL_WaitThread(thread, NULL); the handle is not reset
QuitJoin ==
    /\ cpc = "quit_join"
    /\ IF thread # "NULL"
       THEN /\ WaitThreadReturns(wpc)
            /\ wpc' = IF wpc = "returned" THEN "none" ELSE wpc
            /\ workers' = workers - 1
       ELSE UNCHANGED <<wpc, workers>>
    /\ cpc' = "quit_destroy"
    /\ UNCHANGED <<chess, thread, mutex, handoffVars, engineMoveLocal, engineReady, best, d, candidates,
                   progressVars, published, spawned, posAtSpawn, delivered, accepted,
                   clickOutcome, humanMoves, kingMoved, searchIdle>>

\* SDL_DestroyMutex(mutex) and the frees
QuitDestroy ==
    /\ cpc = "quit_destroy"
    /\ mutex' = "destroyed"
    /\ cpc' = "quit"
    /\ UNCHANGED <<chess, thread, handoffVars, engineMoveLocal, engineReady, workerSide,
                   historyVars, searchIdle>>

consumerSide == <<chess, thread, cpc, engineMoveLocal, engineReady, workers, spawned,
                  posAtSpawn, delivered, accepted, clickOutcome, humanMoves, kingMoved>>

\* engine_thread_func: the three progress counters are reset
W_Start ==
    /\ wpc = "start"
    /\ nodesSearched' = 0
    /\ depthCompleted' = 0
    /\ searching' = 1
    /\ wpc' = "lock_snapshot"
    /\ UNCHANGED <<consumerSide, mutex, handoffVars, best, d, candidates, published, searchIdle>>

W_LockSnapshot ==
    /\ wpc = "lock_snapshot"
    /\ mutex = "free"
    /\ mutex' = "worker"
    /\ wpc' = "copy"
    /\ UNCHANGED <<consumerSide, handoffVars, best, d, candidates, progressVars, published, searchIdle>>

\* snapshot = state->chess; candidates records, for the rounds of the loop,
\* what findBestMove can return for this snapshot
W_Copy ==
    /\ wpc = "copy"
    /\ snapshot' = chess
    /\ candidates' = findBestMoveResults(chess)
    /\ wpc' = "unlock_snapshot"
    /\ UNCHANGED <<consumerSide, mutex, handoffVars, best, d, progressVars, published,
                   frames, lastUndone>>

\* SDL_UnlockMutex; Move best = {0}; d = 1
W_UnlockSnapshot ==
    /\ wpc = "unlock_snapshot"
    /\ mutex' = "free"
    /\ best' = emptyMove
    /\ d' = 1
    /\ wpc' = "search"
    /\ UNCHANGED <<consumerSide, handoffVars, candidates, progressVars, published, searchIdle>>

\* one round of the deepening loop: best = findBestMove(&snapshot, d, engine);
\* depthCompleted = d.  minimax counts a node per call, so the counter is
\* above 0 as soon as there is a move to try.
W_Search ==
    /\ wpc = "search"
    /\ deepening(d)
    /\ \E b \in candidates :
          /\ best' = b
          /\ nodesSearched' = IF b = emptyMove THEN nodesSearched ELSE 1
    /\ depthCompleted' = d
    /\ d' = d + 1
    /\ UNCHANGED <<consumerSide, mutex, handoffVars, wpc, candidates, searching, published,
                   searchIdle>>

\* the loop is over; SDL_LockMutex
W_LockPublish ==
    /\ wpc = "search"
    /\ ~deepening(d)
    /\ mutex = "free"
    /\ mutex' = "worker"
    /\ wpc' = "publish"
    /\ UNCHANGED <<consumerSide, handoffVars, best, d, candidates, progressVars, published, searchIdle>>

\* resultMove = best; hasMove = true
W_Publish ==
    /\ wpc = "publish"
    /\ resultMove' = best
    /\ hasMove' = TRUE
    /\ published' = Append(published, best)
    /\ wpc' = "unlock_publish"
    /\ UNCHANGED <<consumerSide, mutex, best, d, candidates, progressVars, searchIdle>>

W_UnlockPublish ==
    /\ wpc = "unlock_publish"
    /\ mutex' = "free"
    /\ wpc' = "finish"
    /\ UNCHANGED <<consumerSide, handoffVars, best, d, candidates, progressVars, published, searchIdle>>

\* searching = 0; return 0
W_Finish ==
    /\ wpc = "finish"
    /\ searching' = 0
    /\ wpc' = "returned"
    /\ UNCHANGED <<consumerSide, mutex, handoffVars, best, d, candidates, nodesSearched, depthCompleted,
                   published, searchIdle>>

Next ==
    \/ \E sq \in ClickSquares : Click(sq[1], sq[2])
    \/ EventLock
    \/ EventSpawn
    \/ EventUnlock
    \/ IterLock
    \/ IterPoll
    \/ IterUnlock
    \/ IterApply
    \/ IterJoin
    \/ Quit
    \/ QuitJoin
    \/ QuitDestroy
    \/ W_Start
    \/ W_LockSnapshot
    \/ W_Copy
    \/ W_UnlockSnapshot
    \/ W_Search
    \/ W_LockPublish
    \/ W_Publish
    \/ W_UnlockPublish
    \/ W_Finish

Spec == Init /\ [][Next]_vars

(* ---------------------------------------------------------------------- *)
(* Scheduling.  The operating system runs the worker thread and grants a   *)
(* contended mutex to each waiter in turn; SDL calls SDL_AppIterate once    *)
(* per frame for as long as the session lasts, and a handler that has       *)
(* started runs to its end.  Clicks and the request to quit are the user's  *)
(* and carry no fairness.                                                   *)
(* ---------------------------------------------------------------------- *)
Worker ==
    \/ W_Start \/ W_LockSnapshot \/ W_Copy \/ W_UnlockSnapshot \/ W_Search
    \/ W_LockPublish \/ W_Publish \/ W_UnlockPublish \/ W_Finish

Iterate == IterLock \/ IterPoll \/ IterUnlock \/ IterApply \/ IterJoin

Handler == EventLock \/ EventSpawn \/ EventUnlock \/ QuitJoin \/ QuitDestroy

FairSpec == Spec /\ SF_vars(Worker) /\ WF_vars(Iterate) /\ WF_vars(Handler)

(* ---------------------------------------------------------------------- *)
(* Properties of the rules, checked on the search's walk (SpecSearch)      *)
(* ---------------------------------------------------------------------- *)
Range(seq) == {seq[i] : i \in 1..Len(seq)}

\* the state is the one a makeMove has just produced
JustMade == frames # <<>> /\ lastUndone = <<>>

\* C1: makeMove followed by unmakeMove, for a move of getAllMoves, gives back
\* the position as it was: the 64 squares, whiteToMove, the four castling
\* flags and enPassantCol.
RoundTrip ==
    lastUndone # <<>> =>
        /\ snapshot.board = lastUndone[1].before.board
        /\ snapshot.whiteToMove = lastUndone[1].before.whiteToMove
        /\ snapshot.hasCastledWhite = lastUndone[1].before.hasCastledWhite
        /\ snapshot.hasCastledBlack = lastUndone[1].before.hasCastledBlack
        /\ snapshot.enPassantCol = lastUndone[1].before.enPassantCol

\* a promotion that captured has been made and unmade
RoundTripWitness ==
    /\ lastUndone # <<>>
    /\ lastUndone[1].m.isPromotion
    /\ lastUndone[1].m.captured # EMPTY
    /\ snapshot.board[lastUndone[1].m.toRow][lastUndone[1].m.toCol] = lastUndone[1].m.captured

\* C2: after makeMove of a move of getAllMoves the king of the side that
\* moved is not in check.
LegalitySound ==
    frames # <<>> => ~isKingInCheck(snapshot, ~snapshot.whiteToMove)

\* a castling move has just been made: king and rook stand on their new squares
LegalitySoundWitness ==
    /\ JustMade
    /\ Head(frames).m.isCastling
    /\ snapshot.board[Head(frames).m.toRow][Head(frames).m.toCol] \in {WHITE_KING, BLACK_KING}
    /\ snapshot.board[Head(frames).m.toRow][IF Head(frames).m.toCol = 6 THEN 5 ELSE 3]
          \in {WHITE_ROOK, BLACK_ROOK}

\* C7: right after a pawn's double push to file F, an enemy pawn beside the
\* pushed pawn may capture it en passant: the move onto file F at the skipped
\* rank is legal, getAllMoves returns it flagged isEnPassant, and making it
\* empties the pushed pawn's square.
EnPassantCapture ==
    (JustMade /\ snapshot.enPassantCol # NONE) =>
        LET F       == snapshot.enPassantCol
            row     == Head(frames).m.toRow
            skipped == (Head(frames).m.fromRow + Head(frames).m.toRow) \div 2
            capturer == IF snapshot.whiteToMove THEN WHITE_PAWN ELSE BLACK_PAWN
        IN  \A c \in {F - 1, F + 1} \cap Cols :
                snapshot.board[row][c] = capturer =>
                    /\ isLegalMove(snapshot, row, c, skipped, F)
                    /\ \E mv \in Range(getAllMoves(snapshot)) :
                          /\ mv.fromRow = row /\ mv.fromCol = c
                          /\ mv.toRow = skipped /\ mv.toCol = F
                          /\ mv.isEnPassant
                    /\ makeMove(snapshot, classify(snapshot, row, c, skipped, F)).board[row][F] = EMPTY

\* The attack geometry of the game: a pawn attacks the two squares diagonally
\* ahead of it, empty or not; every other piece attacks where it can move.
attacksByRule(pos, fr, fc, tr, tc) ==
    LET p == pos.board[fr][fc]
    IN  IF p \in {WHITE_PAWN, BLACK_PAWN}
        THEN abs(tc - fc) = 1 /\ tr = fr + (IF isWhite(p) THEN 1 ELSE -1)
        ELSE canPieceAttackSquare(pos, fr, fc, tr, tc)

attackedByRule(pos, r, c, byWhite) ==
    \E fr \in Rows : \E fc \in Cols :
        /\ pos.board[fr][fc] # EMPTY
        /\ isWhite(pos.board[fr][fc]) = byWhite
        /\ attacksByRule(pos, fr, fc, r, c)

\* C8: a castling move is rejected whenever a square the king transits (its
\* start, the square it crosses, its end) is attacked by an opposing piece,
\* pawns included.
CastlingThroughAttack ==
    \A white \in BOOLEAN : \A tc \in {2, 6} :
        LET row     == IF white THEN 0 ELSE 7
            king    == IF white THEN WHITE_KING ELSE BLACK_KING
            transit == IF tc = 6 THEN 4..6 ELSE 2..4
        IN  (/\ snapshot.board[row][4] = king
             /\ \E c \in transit : attackedByRule(snapshot, row, c, ~white))
            => ~isLegalMove(snapshot, row, 4, row, tc)

\* C9: isSquareAttacked answers for pawns by diagonal geometry only: a pawn
\* diagonally one rank behind the square makes it attacked, empty or not, and
\* a pawn that can merely advance onto the square does not.
PawnAttackGeometry ==
    \A r \in Rows : \A c \in Cols : \A byWhite \in BOOLEAN :
        LET pawn  == IF byWhite THEN WHITE_PAWN ELSE BLACK_PAWN
            back  == IF byWhite THEN r - 1 ELSE r + 1
            diag  == \E fc \in {c - 1, c + 1} \cap Cols :
                        back \in Rows /\ snapshot.board[back][fc] = pawn
            other == \E fr \in Rows : \E fc \in Cols :
                        /\ snapshot.board[fr][fc] \notin {EMPTY, WHITE_PAWN, BLACK_PAWN}
                        /\ isWhite(snapshot.board[fr][fc]) = byWhite
                        /\ canPieceAttackSquare(snapshot, fr, fc, r, c)
        IN  /\ diag => isSquareAttacked(snapshot, r, c, byWhite)
            /\ (~diag /\ ~other) => ~isSquareAttacked(snapshot, r, c, byWhite)

(* ---------------------------------------------------------------------- *)
(* Properties of the running application (Spec)                            *)
(* ---------------------------------------------------------------------- *)

\* the engine thread exists and has not yet written its result
WorkerBeforePublish ==
    wpc \in {"start", "lock_snapshot", "copy", "unlock_snapshot", "search", "publish"}

\* the engine thread holds its copy of the position
WorkerHasSnapshot ==
    wpc \in {"unlock_snapshot", "search", "publish", "unlock_publish", "finish", "returned"}

\* C3: exactly-once handoff.  Every engine thread writes one result; the
\* results the polls took are, in order, the results written, less the one
\* still waiting in the slot while hasMove is set (so none is lost,
\* overwritten or taken twice); and when the click handler resets hasMove
\* before creating a thread the slot holds no unread result.
ExactlyOnceHandoff ==
    /\ Len(published) = Len(delivered) + (IF hasMove THEN 1 ELSE 0)
    /\ delivered = SubSeq(published, 1, Len(delivered))
    /\ hasMove => resultMove = published[Len(published)]
    /\ spawned = Len(published) + (IF WorkerBeforePublish THEN 1 ELSE 0)
    /\ (cpc = "ev_spawn" /\ thread = "NULL") => ~hasMove

\* two searches have been delivered and a later poll finds the slot empty
ExactlyOnceHandoffWitness ==
    /\ Len(delivered) = 2
    /\ cpc = "it_unlock"
    /\ ~engineReady

\* C4: while an engine thread is outstanding (thread not NULL) every click
\* is dropped by the engine-turn test, because the side to move is the
\* engine's side whenever the consumer can receive a click in that interval.
HumanMoveRejectedWhileSearching ==
    /\ (thread # "NULL" /\ cpc = "idle") => chess.whiteToMove = chess.engineWhite
    /\ clickOutcome.outstanding => clickOutcome.what = "engine_turn"

\* a click is dropped while the second engine thread of the session is outstanding
HumanMoveRejectedWitness ==
    /\ clickOutcome = [what |-> "engine_turn", outstanding |-> TRUE]
    /\ spawned = 2
    /\ thread # "NULL"

\* C5: snapshot isolation.  From the creation of the engine thread until the
\* consumer applies its result, the live position is the position the human's
\* move left (selection included), and the copy the engine thread searches
\* is that position.
SnapshotIsolation ==
    /\ (thread # "NULL" /\ cpc # "it_join") => chess = posAtSpawn
    /\ WorkerHasSnapshot => snapshot = posAtSpawn
    /\ thread # "NULL" =>
          posAtSpawn = [makeMove(accepted[1].before, accepted[1].move) EXCEPT
                          !.selectedRow = NONE, !.selectedCol = NONE]

\* the engine thread is in its deepening loop on the copy while the consumer
\* has polled and handled a click
SnapshotIsolationWitness ==
    /\ wpc = "search"
    /\ d = 3
    /\ cpc = "it_poll"
    /\ clickOutcome.what = "engine_turn"
    /\ snapshot = chess
    /\ ~snapshot.whiteToMove

\* C6: at most one engine thread.  Threads created and not joined never
\* exceed one; a NULL handle means no thread is running or unjoined, so the
\* creation under thread == NULL never overlaps an earlier thread; and the
\* mutex is destroyed only when no thread is left.
AtMostOneWorker ==
    /\ workers <= 1
    /\ thread = "NULL" => (wpc = "none" /\ workers = 0)
    /\ wpc # "none" => workers = 1
    /\ mutex = "destroyed" => wpc = "none"

\* shutdown joined the second engine thread of the session before it
\* destroyed the mutex
AtMostOneWorkerWitness ==
    /\ mutex = "destroyed"
    /\ thread # "NULL"
    /\ spawned = 2

\* C10: human move acceptance.  Right after a click made a move: it was not
\* the engine's turn, the Move applied is an element of getAllMoves of the
\* position before it (same squares, captured piece and flags), and the piece
\* moved belonged to the side to move.
HumanMoveAcceptance ==
    (cpc = "ev_lock" /\ accepted # <<>>) =>
        LET before == accepted[1].before
            move   == accepted[1].move
            moving == before.board[move.fromRow][move.fromCol]
        IN  /\ before.whiteToMove # before.engineWhite
            /\ move \in Range(getAllMoves(before))
            /\ moving # EMPTY
            /\ before.whiteToMove <=> isWhite(moving)

\* a click has just made a promotion that captures
HumanMoveAcceptanceWitness ==
    /\ cpc = "ev_lock"
    /\ accepted # <<>>
    /\ accepted[1].move.isPromotion
    /\ accepted[1].move.captured # EMPTY

\* C11: a click that is not a legal destination click (no selection, the
\* selected square itself, an illegal destination) or that comes on the
\* engine's turn changes nothing but the selection: board, side to move,
\* castling flags, enPassantCol, the handoff slot and the thread handle stay
\* as they were, and no thread is created.
IllegalMoveRejected ==
    [][\A sq \in ClickSquares :
          (/\ Click(sq[1], sq[2])
           /\ \/ chess.whiteToMove = chess.engineWhite
              \/ ~hasSelection(chess.selectedRow, chess.selectedCol)
              \/ ~isLegalMove(chess, chess.selectedRow, chess.selectedCol, sq[1], sq[2]))
          => /\ chess'.board = chess.board
             /\ chess'.whiteToMove = chess.whiteToMove
             /\ chess'.hasCastledWhite = chess.hasCastledWhite
             /\ chess'.hasCastledBlack = chess.hasCastledBlack
             /\ chess'.enPassantCol = chess.enPassantCol
             /\ hasMove' = hasMove
             /\ resultMove' = resultMove
             /\ thread' = thread
             /\ spawned' = spawned
             /\ wpc' = wpc
             /\ cpc' = "idle"]_vars

\* with a piece selected the human clicked a square it cannot go to, after a
\* first move of the game had been played
IllegalMoveRejectedWitness ==
    /\ clickOutcome.what = "cleared"
    /\ humanMoves = 1
    /\ chess.selectedRow = NONE
    /\ thread = "NULL"

\* no engine thread exists, no result waits in the slot or in the consumer's
\* hands, and the consumer is not on its way to create a thread
NoSearchNoResult ==
    /\ thread = "NULL"
    /\ wpc = "none"
    /\ ~hasMove
    /\ ~engineReady
    /\ cpc \notin {"ev_lock", "ev_spawn"}

\* Once nothing is searching, nothing is pending and it is the engine's turn,
\* it stays so: no step accepts a move or creates a thread.
FailedSpawnIsFinal ==
    [][(NoSearchNoResult /\ chess.whiteToMove = chess.engineWhite)
          => /\ NoSearchNoResult'
             /\ chess'.whiteToMove = chess'.engineWhite
             /\ humanMoves' = humanMoves
             /\ spawned' = spawned]_vars

\* C12: a failed SDL_CreateThread is recoverable: when no engine thread is
\* running and no result is pending, it is the human's turn, so that a later
\* click makes a move and the creation is tried again.
FailedSpawnRecoverable ==
    NoSearchNoResult => chess.whiteToMove # chess.engineWhite

\* source and destination on the board and a piece on the source
callOk(pos, fr, fc, tr, tc) ==
    /\ inBounds(fr, fc)
    /\ inBounds(tr, tc)
    /\ pos.board[fr][fc] # EMPTY

\* C13: every call of isLegalMove and makeMove by the consumer has its
\* squares on the board and a piece on the source square: the calls of the
\* board rendering of each frame, of a click, of a click's makeMove and of
\* the makeMove that applies the engine's result.
CallPreconditions ==
    /\ cpc = "idle" =>
          /\ \A a \in renderCalls(chess) : callOk(chess, a[1], a[2], a[3], a[4])
          /\ \A sq \in ClickSquares : \A a \in clickCalls(chess, sq[1], sq[2]) :
                callOk(chess, a[1], a[2], a[3], a[4])
    /\ (cpc = "ev_lock" /\ accepted # <<>>) =>
          callOk(accepted[1].before, accepted[1].move.fromRow, accepted[1].move.fromCol,
                 accepted[1].move.toRow, accepted[1].move.toCol)
    /\ cpc = "it_apply" =>
          callOk(chess, engineMoveLocal.fromRow, engineMoveLocal.fromCol,
                 engineMoveLocal.toRow, engineMoveLocal.toCol)

\* the same for the makeMove calls alone
MakeMovePreconditions ==
    /\ (cpc = "ev_lock" /\ accepted # <<>>) =>
          callOk(accepted[1].before, accepted[1].move.fromRow, accepted[1].move.fromCol,
                 accepted[1].move.toRow, accepted[1].move.toCol)
    /\ cpc = "it_apply" =>
          callOk(chess, engineMoveLocal.fromRow, engineMoveLocal.fromCol,
                 engineMoveLocal.toRow, engineMoveLocal.toCol)

\* C14: once a makeMove on the live position has moved a side's king, the
\* king's castling moves to either wing are refused in every later position,
\* also with king and rooks back on their home squares and nothing between.
CastlingAfterKingMove ==
    \A side \in kingMoved : \A tc \in {2, 6} :
        LET row  == IF side = "white" THEN 0 ELSE 7
            king == IF side = "white" THEN WHITE_KING ELSE BLACK_KING
        IN  chess.board[row][4] = king => ~isLegalMove(chess, row, 4, row, tc)

\* the white king went e1-f1 and back: it stands on e1 with the rook on h1,
\* f1 and g1 empty and no check, and it is white's move
CastlingAfterKingMoveWitness ==
    /\ "white" \in kingMoved
    /\ chess.whiteToMove
    /\ cpc = "idle"
    /\ chess.board[0][4] = WHITE_KING
    /\ chess.board[0][7] = WHITE_ROOK
    /\ chess.board[0][5] = EMPTY
    /\ chess.board[0][6] = EMPTY
    /\ ~isKingInCheck(chess, TRUE)

\* C15: a castling move is refused whenever a square strictly between the
\* king's home square and the home square of the rook of that wing is
\* occupied, the b-file square of the queen's wing included.
CastlingBlocked ==
    \A white \in BOOLEAN : \A tc \in {2, 6} :
        LET row     == IF white THEN 0 ELSE 7
            king    == IF white THEN WHITE_KING ELSE BLACK_KING
            strictlyBetween == IF tc = 6 THEN {5, 6} ELSE {1, 2, 3}
        IN  (/\ snapshot.board[row][4] = king
             /\ \E c \in strictlyBetween : snapshot.board[row][c] # EMPTY)
            => ~isLegalMove(snapshot, row, 4, row, tc)

\* white to move with king e1 and rook a1 unmoved, c1 and d1 empty and not
\* attacked, no check, and a piece on b1 only
CastlingBlockedWitness ==
    /\ snapshot.whiteToMove
    /\ snapshot.board[0][4] = WHITE_KING
    /\ snapshot.board[0][0] = WHITE_ROOK
    /\ snapshot.board[0][1] # EMPTY
    /\ snapshot.board[0][2] = EMPTY
    /\ snapshot.board[0][3] = EMPTY
    /\ ~snapshot.hasCastledWhite[1]
    /\ \A c \in 2..4 : ~isSquareAttacked(snapshot, 0, c, FALSE)
    /\ Len(frames) = 2

\* C16: after every makeMove enPassantCol is the file of the pawn moved if
\* the move was a pawn's advance of two squares and -1 otherwise; what a
\* double push set is gone after the next move that is not one, and a
\* promotion never sets it.
EnPassantNotSticky ==
    JustMade =>
        LET m == Head(frames).m
            p == Head(frames).before.board[m.fromRow][m.fromCol]
        IN  snapshot.enPassantCol =
                IF p \in {WHITE_PAWN, BLACK_PAWN} /\ abs(m.toRow - m.fromRow) = 2
                THEN m.toCol
                ELSE NONE

\* a double push set enPassantCol and the reply, not a double push, cleared it
EnPassantNotStickyWitness ==
    /\ JustMade
    /\ Len(frames) = 2
    /\ Head(frames).before.enPassantCol # NONE
    /\ snapshot.enPassantCol = NONE
    /\ Head(frames).before.board[Head(frames).m.fromRow][Head(frames).m.fromCol]
          \in {WHITE_PAWN, BLACK_PAWN}

\* C17: isCheckmate is true exactly when the side to move is in check and
\* getAllMoves is empty, isStalemate exactly when it is not in check and
\* getAllMoves is empty; never both; getAllMoves is empty exactly when one of
\* them is true; the back-rank mate reports checkmate and not stalemate, the
\* cornered king that is not attacked stalemate and not checkmate.
MatePredicates ==
    \E moves \in {getAllMoves(snapshot)} :
    \E check \in {isKingInCheck(snapshot, snapshot.whiteToMove)} :
    \E mate \in {isCheckmate(snapshot)} :
    \E stale \in {isStalemate(snapshot)} :
        LET none == Len(moves) = 0
        IN  /\ mate <=> (check /\ none)
            /\ stale <=> (~check /\ none)
            /\ ~(mate /\ stale)
            /\ none <=> (mate \/ stale)
            /\ snapshot = BackRankMatePos => (mate /\ ~stale)
            /\ snapshot = StalematePos => (stale /\ ~mate)

\* the search has just played Re8-e1 mate
MatePredicatesWitness ==
    /\ JustMade
    /\ snapshot = BackRankMatePos
    /\ isKingInCheck(snapshot, TRUE)
    /\ getAllMoves(snapshot) = <<>>

\* the search has just played Qg1-g6 stalemate
StalemateReached ==
    /\ JustMade
    /\ snapshot = StalematePos
    /\ ~isKingInCheck(snapshot, FALSE)
    /\ getAllMoves(snapshot) = <<>>

(* ---------------------------------------------------------------------- *)
(* C18  findBestMove's choice and its effect on the position               *)
(* ---------------------------------------------------------------------- *)
\* the child scores findBestMove compares at the given depth, as pairs
\* <<index in getAllMoves order, score>>
childScores(pos, moves, depth) ==
    {<<i, minimax(makeMove(pos, moves[i]), depth - 1, ~pos.whiteToMove).score>>
        : i \in 1..Len(moves)}

\* the best of the scores: the highest for white to move, the lowest for black
bestScore(pos, scores) ==
    Only({s[2] : s \in {t \in scores :
              \A o \in scores : IF pos.whiteToMove THEN o[2] <= t[2] ELSE o[2] >= t[2]}})

\* the first index that has the best score
firstBest(pos, scores) ==
    Only({s[1] : s \in {t \in scores :
              /\ t[2] = bestScore(pos, scores)
              /\ \A o \in scores : o[2] = bestScore(pos, scores) => t[1] <= o[1]}})

\* C18: for the position P the worker copied and every depth it has
\* completed, the move findBestMove returned is determined by P and the depth
\* alone: it is the first move, in getAllMoves' order (source square
\* row-major, then destination square row-major), among the moves whose child
\* score equals the best score; and the position findBestMove worked on is P
\* again when it returns.
SearchTieBreak ==
    depthCompleted >= 1 =>
        /\ snapshot = chess
        /\ \E moves \in {getAllMoves(chess)} :
              Len(moves) > 0 =>
                 \E scores \in {childScores(chess, moves, depthCompleted)} :
                     best = moves[firstBest(chess, scores)]

\* a search has returned where several moves share the best score and the
\* first of them is not the first move generated
SearchTieBreakWitness ==
    /\ depthCompleted = MaxSearchDepth
    /\ snapshot = chess
    /\ \E moves \in {getAllMoves(chess)} :
          /\ Len(moves) > 1
          /\ \E scores \in {childScores(chess, moves, depthCompleted)} :
                /\ firstBest(chess, scores) > 1
                /\ Cardinality({t \in scores : t[2] = bestScore(chess, scores)}) > 1
                /\ best = moves[firstBest(chess, scores)]

(* ---------------------------------------------------------------------- *)
(* C19  The depth counter                                                  *)
(* ---------------------------------------------------------------------- *)
\* a step of the counter within a worker's run: one up, as a round of the
\* deepening loop ends
CounterStepsUp ==
    /\ wpc = "search"
    /\ depthCompleted < maxDepth
    /\ depthCompleted' = depthCompleted + 1

\* the reset as a worker's run begins
CounterReset ==
    /\ wpc = "start"
    /\ depthCompleted' = 0

\* C19: whenever the handoff slot holds an unread result (hasMove is true)
\* the counter depthCompleted equals the maximum depth 5; a worker's run sets
\* the counter to 0 as it begins, and from then on the counter only ever goes
\* up by one, up to 5, so that it takes the values 0, 1, 2, 3, 4, 5 in that
\* order and never decreases within the run; the worker publishes only with
\* the counter at 5.
DepthCounterOnCompletion ==
    /\ [](hasMove => depthCompleted = maxDepth)
    /\ [](wpc \in {"publish", "unlock_publish", "finish"} => depthCompleted = maxDepth)
    /\ [][depthCompleted' # depthCompleted => (CounterStepsUp \/ CounterReset)]_vars

\* the second worker of a session has published its result with the counter
\* at 5
DepthCounterWitness ==
    /\ hasMove
    /\ spawned = 2
    /\ wpc = "unlock_publish"
    /\ depthCompleted = maxDepth

(* ---------------------------------------------------------------------- *)
(* C20  The moves of the starting position                                 *)
(* ---------------------------------------------------------------------- *)
\* a quiet move from one square to another, as getAllMoves records it
quiet(fr, fc, tr, tc) ==
    [fromRow |-> fr, fromCol |-> fc, toRow |-> tr, toCol |-> tc, captured |-> EMPTY,
     isPromotion |-> FALSE, isEnPassant |-> FALSE, isCastling |-> FALSE]

\* the place of a move in row-major source, then row-major destination order
moveOrder(m) == ((m.fromRow * 8 + m.fromCol) * 64) + (m.toRow * 8 + m.toCol)

\* the knight moves from b1 and g1, then each pawn's single and double step
\* from the a-file to the h-file
StartingMoves ==
    <<quiet(0, 1, 2, 0), quiet(0, 1, 2, 2), quiet(0, 6, 2, 5), quiet(0, 6, 2, 7)>>
    \o [i \in 1..16 |-> quiet(1, (i - 1) \div 2, 2 + ((i - 1) % 2), (i - 1) \div 2)]

\* C20: getAllMoves on the position initChessState builds returns exactly
\* 20 moves, 16 of them pawn moves and 4 knight moves, none flagged as
\* castling, promotion or en passant, in row-major order of the source square
\* and then of the destination square.
StartingMoveCount ==
    snapshot = initChessState =>
        \E moves \in {getAllMoves(snapshot)} :
            /\ Len(moves) = 20
            /\ Cardinality({i \in 1..Len(moves) :
                    snapshot.board[moves[i].fromRow][moves[i].fromCol] = WHITE_PAWN}) = 16
            /\ Cardinality({i \in 1..Len(moves) :
                    snapshot.board[moves[i].fromRow][moves[i].fromCol] = WHITE_KNIGHT}) = 4
            /\ \A i \in 1..Len(moves) :
                    ~moves[i].isCastling /\ ~moves[i].isPromotion /\ ~moves[i].isEnPassant
            /\ \A i, j \in 1..Len(moves) : i < j => moveOrder(moves[i]) < moveOrder(moves[j])
            /\ moves = StartingMoves

\* the walk has played the last of the 20 moves, h2-h4, and taken it back
StartingMoveCountWitness ==
    /\ snapshot = initChessState
    /\ frames = <<>>
    /\ lastUndone # <<>>
    /\ lastUndone[1].m = getAllMoves(initChessState)[20]
    /\ lastUndone[1].m = quiet(1, 7, 3, 7)

(* ---------------------------------------------------------------------- *)
(* C21  Check detection and square attack agree                            *)
(* ---------------------------------------------------------------------- *)
\* the squares that hold the king of a colour
kingSquares(pos, white) ==
    {sq \in Rows \X Cols : pos.board[sq[1]][sq[2]] = IF white THEN WHITE_KING ELSE BLACK_KING}

\* C21: for every position of the walk and each colour with exactly one king
\* on the board, at square k, isKingInCheck for that colour equals
\* isSquareAttacked for k by the opposite colour.
CheckDetectionSymmetry ==
    \A white \in BOOLEAN :
        \E ks \in {kingSquares(snapshot, white)} :
            Cardinality(ks) = 1 =>
                \A k \in ks :
                    isKingInCheck(snapshot, white) <=> isSquareAttacked(snapshot, k[1], k[2], ~white)

\* the walk has played Re8-e1: white's only king, on g1, is attacked by black
CheckDetectionWitness ==
    /\ JustMade
    /\ kingSquares(snapshot, TRUE) = {<<0, 6>>}
    /\ Cardinality(kingSquares(snapshot, FALSE)) = 1
    /\ isSquareAttacked(snapshot, 0, 6, FALSE)
    /\ isKingInCheck(snapshot, TRUE)
    /\ ~isKingInCheck(snapshot, FALSE)

(* ---------------------------------------------------------------------- *)
(* C22  Material evaluation                                                *)
(* ---------------------------------------------------------------------- *)
\* the value of a kind of piece: pawn 1, knight 3, bishop 4, rook 5, queen 9,
\* king 0
worth(p) ==
    CASE p \in {WHITE_PAWN, BLACK_PAWN}     -> 1
      [] p \in {WHITE_KNIGHT, BLACK_KNIGHT} -> 3
      [] p \in {WHITE_BISHOP, BLACK_BISHOP} -> 4
      [] p \in {WHITE_ROOK, BLACK_ROOK}     -> 5
      [] p \in {WHITE_QUEEN, BLACK_QUEEN}   -> 9
      [] OTHER                              -> 0

\* how many squares hold the piece p
count(pos, p) == Cardinality({sq \in Rows \X Cols : pos.board[sq[1]][sq[2]] = p})

RECURSIVE materialFrom(_, _)
\* the value of the white pieces minus the value of the black pieces, summed
\* kind by kind from piece p on
materialFrom(pos, p) ==
    IF p > BLACK_KING THEN 0
    ELSE (IF isWhite(p) THEN worth(p) * count(pos, p) ELSE -(worth(p) * count(pos, p)))
         + materialFrom(pos, p + 1)

\* C22: evaluateMaterial is the sum over the occupied squares of the piece
\* values (pawn 1, knight 3, bishop 4, rook 5, queen 9, king 0), positive for
\* the pieces of the perspective colour and negative for the others; so the
\* white and the black perspective are each other's negation, and the
\* starting position evaluates to 0.
MaterialEvaluation ==
    \E white \in {evaluateMaterial(snapshot, TRUE)} :
    \E black \in {evaluateMaterial(snapshot, FALSE)} :
        /\ white = materialFrom(snapshot, WHITE_PAWN)
        /\ black = -materialFrom(snapshot, WHITE_PAWN)
        /\ white = -black
        /\ snapshot = initChessState => (white = 0 /\ black = 0)

\* the walk has reached a position where the material is not level: the two
\* perspectives differ
MaterialEvaluationWitness ==
    /\ JustMade
    /\ evaluateMaterial(snapshot, TRUE) > 0
    /\ evaluateMaterial(snapshot, FALSE) < 0
    /\ \E sq \in Rows \X Cols : snapshot.board[sq[1]][sq[2]] = WHITE_QUEEN

(* ---------------------------------------------------------------------- *)
(* C23  findBestMove against a reference minimax                           *)
(* ---------------------------------------------------------------------- *)
\* the highest (white to move) or lowest (black to move) of a set of scores
optimum(white, scores) ==
    CHOOSE v \in scores : \A o \in scores : IF white THEN o <= v ELSE o >= v

RECURSIVE reference(_, _)
\* the reference full-width minimax: leaves scored by white material minus
\* black material, white-to-move nodes take the maximum and black-to-move
\* nodes the minimum, a mated side to move scores 10000 against it and
\* stalemate 0
reference(pos, depth) ==
    IF depth = 0 THEN materialFrom(pos, WHITE_PAWN)
    ELSE Only({IF Len(moves) = 0
               THEN (IF isKingInCheck(pos, pos.whiteToMove)
                     THEN (IF pos.whiteToMove THEN -10000 ELSE 10000)
                     ELSE 0)
               ELSE optimum(pos.whiteToMove,
                            {reference(makeMove(pos, moves[i]), depth - 1) : i \in 1..Len(moves)})
                 : moves \in {getAllMoves(pos)}})

\* C23: for the position the worker searches, when it has a legal move, and
\* every depth the worker has completed, the move findBestMove returned
\* attains the value of the reference minimax at the root.
SearchOptimal ==
    (depthCompleted >= 1 /\ best # emptyMove) =>
        reference(makeMove(chess, best), depthCompleted - 1) = reference(chess, depthCompleted)

\* the cases in which the search does attain the reference value: black to
\* move at an odd depth, white to move at an even depth
SearchOptimalAtMatchingParity ==
    (depthCompleted >= 1 /\ best # emptyMove /\ chess.whiteToMove = (depthCompleted % 2 = 0)) =>
        reference(makeMove(chess, best), depthCompleted - 1) = reference(chess, depthCompleted)

(* ---------------------------------------------------------------------- *)
(* C24  minimax's scores                                                   *)
(* ---------------------------------------------------------------------- *)
\* the position findBestMove was called with: the walk's position before its
\* first move
walkRoot == IF frames = <<>> THEN snapshot ELSE frames[Len(frames)].before

\* the walk stands at a position minimax is called with, and the flag of
\* that call
InMinimaxCall == frames # <<>>

walkFlag == callFlag(walkRoot.whiteToMove, Len(frames))

\* the deeper calls are examined below the sparse positions only
DeepScored == InMinimaxCall /\ walkRoot \in EndgamePositions

\* the call's flag is the position's side to move; without a legal move and
\* with depth left, minimax returns 0 out of check, -10000 for white mated
\* and 10000 for black mated; with a legal move and one ply left the score
\* lies strictly between -10000 and 10000, and every score lies within them
MinimaxScoresAt(pos, flag, moves, one) ==
    /\ flag = pos.whiteToMove
    /\ one >= -10000 /\ one <= 10000
    /\ Len(moves) = 0 =>
          one = IF ~isKingInCheck(pos, pos.whiteToMove) THEN 0
                ELSE IF pos.whiteToMove THEN -10000 ELSE 10000
    /\ Len(moves) > 0 => (one > -10000 /\ one < 10000)
    /\ \E leaf \in {minimax(pos, 0, flag).score} : leaf > -10000 /\ leaf < 10000

\* C24 (amended): in every minimax call below findBestMove the perspective
\* flag equals the position's whiteToMove; with depth left and no legal move
\* minimax returns 0 when the side to move is not in check, -10000 when white
\* to move is mated and 10000 when black to move is mated; every score lies
\* between -10000 and 10000 inclusive, and strictly between for a depth-0
\* leaf and for a position with a legal move and one ply left (a position
\* with a legal move and more depth left scores -10000 or 10000 when a mate
\* is forced within the depth).
MinimaxScores ==
    InMinimaxCall =>
        /\ \E moves \in {getAllMoves(snapshot)} :
           \E one \in {minimax(snapshot, 1, walkFlag).score} :
               MinimaxScoresAt(snapshot, walkFlag, moves, one)
        /\ DeepScored =>
              \E moves \in {getAllMoves(snapshot)} :
              \E two \in {minimax(snapshot, 2, walkFlag).score} :
                  /\ two >= -10000 /\ two <= 10000
                  /\ Len(moves) = 0 => two = minimax(snapshot, 1, walkFlag).score

\* C24 as stated: the score of every call on a position with a legal move
\* lies strictly between -10000 and 10000
NonTerminalScoresStrictlyBetween ==
    DeepScored =>
        \E moves \in {getAllMoves(snapshot)} :
        \E two \in {minimax(snapshot, 2, walkFlag).score} :
            Len(moves) > 0 => (two > -10000 /\ two < 10000)

\* the walk has played Qg1-g6: a minimax call on a stalemate, scored 0
MinimaxScoresWitness ==
    /\ JustMade
    /\ snapshot = StalematePos
    /\ walkFlag = FALSE
    /\ minimax(snapshot, 1, walkFlag).score = 0

\* the walk has played Re8-e1: a minimax call on white mated, scored -10000
MinimaxMateReached ==
    /\ JustMade
    /\ snapshot = BackRankMatePos
    /\ walkFlag = TRUE
    /\ minimax(snapshot, 2, walkFlag).score = -10000

(* ---------------------------------------------------------------------- *)
(* C25  Search completion                                                  *)
(* ---------------------------------------------------------------------- *)
\* a worker has just been started
Started == wpc = "start"

\* the last worker started has published its result and cleared the running
\* flag
Completed ==
    /\ Len(published) = spawned
    /\ depthCompleted = maxDepth
    /\ searching = 0
    /\ wpc \in {"returned", "none"}

\* the consumer has taken the last worker's result, applied it and joined
\* the worker
Applied ==
    /\ Len(delivered) = spawned
    /\ thread = "NULL"
    /\ workers = 0
    /\ cpc = "idle"

\* the session is being quit
Quitting == cpc \in {"quit_join", "quit_destroy", "quit"}

\* a worker is past its loop only having copied the position under the lock
\* and run all the rounds, and has returned only having published
WorkerRunsInOrder ==
    /\ wpc \in {"search", "publish", "unlock_publish", "finish", "returned"} => snapshot = posAtSpawn
    /\ wpc \in {"publish", "unlock_publish", "finish", "returned"} => depthCompleted = maxDepth
    /\ wpc = "returned" => (Len(published) = spawned /\ searching = 0)
    /\ cpc = "quit" => workers = 0

\* C25 as stated: under fair scheduling every worker that is started takes
\* its snapshot, completes the depths 1..5 in order, publishes and clears
\* the running flag, and the consumer eventually applies the result and
\* joins the worker.
SearchCompletion ==
    /\ []WorkerRunsInOrder
    /\ Started ~> Completed
    /\ Started ~> Applied

\* C25 (amended): as stated, except that the consumer applies the result and
\* joins the worker unless the session is quit first; SDL_AppQuit then
\* joins the worker, which still runs to its end and publishes, and the
\* result is dropped.
SearchCompletionUnlessQuit ==
    /\ []WorkerRunsInOrder
    /\ Started ~> Completed
    /\ Started ~> (Applied \/ Quitting)

\* the second worker's result has been applied and the worker joined
SearchCompletionWitness ==
    /\ spawned = 2
    /\ Len(published) = 2
    /\ Applied
    /\ searching = 0
    /\ depthCompleted = maxDepth

(* ---------------------------------------------------------------------- *)
(* C26  Castling-rights bookkeeping on the live position                   *)
(* ---------------------------------------------------------------------- *)
\* a step that applies makeMove to the live position, and the move applied:
\* the engine's result in SDL_AppIterate, the human's move in a click
EngineMoveApplied == cpc = "it_apply" /\ cpc' # "it_apply"

LiveMakeMove == EngineMoveApplied \/ humanMoves' # humanMoves

liveMove == IF EngineMoveApplied THEN engineMoveLocal ELSE accepted'[1].move

\* the four rights-lost flags of a position
flagsOf(pos) == <<pos.hasCastledWhite[0], pos.hasCastledWhite[1],
                  pos.hasCastledBlack[0], pos.hasCastledBlack[1]>>

\* the flags makeMove is to set for the piece that moves from a square
flagsSetBy(p, fromRow, fromCol) ==
    <<p = WHITE_KING \/ (p = WHITE_ROOK /\ fromRow = 0 /\ fromCol = 7),
      p = WHITE_KING \/ (p = WHITE_ROOK /\ fromRow = 0 /\ fromCol = 0),
      p = BLACK_KING \/ (p = BLACK_ROOK /\ fromRow = 7 /\ fromCol = 7),
      p = BLACK_KING \/ (p = BLACK_ROOK /\ fromRow = 7 /\ fromCol = 0)>>

\* a step of the live position keeps every flag that is set; a makeMove
\* sets exactly the flags of the king or home-corner rook that moves
FlagsStep ==
    /\ \A i \in 1..4 : flagsOf(chess)[i] => flagsOf(chess')[i]
    /\ LiveMakeMove =>
          \E m \in {liveMove} :
              \A i \in 1..4 :
                  flagsOf(chess')[i] <=>
                     (flagsOf(chess)[i]
                        \/ flagsSetBy(chess.board[m.fromRow][m.fromCol], m.fromRow, m.fromCol)[i])
    /\ ~LiveMakeMove => flagsOf(chess') = flagsOf(chess)

\* with a flag set, the king's castling move on that wing is rejected
FlagRejectsCastling ==
    /\ (chess.board[0][4] = WHITE_KING /\ chess.hasCastledWhite[0])
          => ~isLegalMove(chess, 0, 4, 0, 6)
    /\ (chess.board[0][4] = WHITE_KING /\ chess.hasCastledWhite[1])
          => ~isLegalMove(chess, 0, 4, 0, 2)
    /\ (chess.board[7][4] = BLACK_KING /\ chess.hasCastledBlack[0])
          => ~isLegalMove(chess, 7, 4, 7, 6)
    /\ (chess.board[7][4] = BLACK_KING /\ chess.hasCastledBlack[1])
          => ~isLegalMove(chess, 7, 4, 7, 2)

\* C26: on the live position a king move (castling included) sets both
\* rights-lost flags of its side, a rook moving from one of its own home
\* corners sets the flag of that corner, no other move changes a flag, and a
\* flag that is true never becomes false; with the flag set castling on that
\* wing is rejected, also after the rook has returned to its corner.
CastlingRightsBookkeeping ==
    /\ []FlagRejectsCastling
    /\ [][FlagsStep]_vars

\* the h1 rook has moved away and come back with the king still on e1 and
\* the squares between them empty: castling short is rejected
CastlingRightsWitness ==
    /\ humanMoves = 2
    /\ chess.whiteToMove
    /\ chess.board[0][4] = WHITE_KING
    /\ chess.board[0][7] = WHITE_ROOK
    /\ chess.board[0][5] = EMPTY /\ chess.board[0][6] = EMPTY
    /\ "white" \notin kingMoved
    /\ chess.hasCastledWhite[0]
    /\ ~chess.hasCastledWhite[1]
    /\ ~isLegalMove(chess, 0, 4, 0, 6)

(* ---------------------------------------------------------------------- *)
(* C27  Auto-promotion                                                     *)
(* ---------------------------------------------------------------------- *)
\* a pawn of either colour stands on the rank it promotes on
pawnOnFarRank(pos) ==
    \E c \in 0..7 : pos.board[7][c] = WHITE_PAWN \/ pos.board[0][c] = BLACK_PAWN

\* the generated move takes a pawn to its farthest rank
toFarRank(pos, mv) ==
    \/ pos.board[mv.fromRow][mv.fromCol] = WHITE_PAWN /\ mv.toRow = 7
    \/ pos.board[mv.fromRow][mv.fromCol] = BLACK_PAWN /\ mv.toRow = 0

\* C27: in every position of the walk, getAllMoves flags a move as a
\* promotion exactly when it takes a pawn to its farthest rank (row 7 for
\* white, row 0 for black), the click handler builds the same Move, makeMove
\* of a flagged move puts a queen of the mover's colour on the destination,
\* and no white pawn stands on row 7 and no black pawn on row 0.
AutoPromotion ==
    /\ ~pawnOnFarRank(snapshot)
    /\ \E moves \in {getAllMoves(snapshot)} : \A i \in 1..Len(moves) :
          \E mv \in {moves[i]} :
             /\ mv.isPromotion <=> toFarRank(snapshot, mv)
             /\ clickMove(snapshot, mv.fromRow, mv.fromCol, mv.toRow, mv.toCol) = mv
             /\ mv.isPromotion =>
                   makeMove(snapshot, mv).board[mv.toRow][mv.toCol] =
                      (IF snapshot.whiteToMove THEN WHITE_QUEEN ELSE BLACK_QUEEN)

\* a black pawn has just promoted by capturing on row 0: a black queen
\* stands there and the pawn has left row 1
AutoPromotionWitness ==
    /\ frames # <<>>
    /\ \E f \in {frames[1]} :
          /\ f.m.isPromotion /\ f.m.toRow = 0 /\ f.m.captured # EMPTY
          /\ f.before.board[f.m.fromRow][f.m.fromCol] = BLACK_PAWN
          /\ snapshot.board[0][f.m.toCol] = BLACK_QUEEN
          /\ snapshot.board[f.m.fromRow][f.m.fromCol] = EMPTY

(* ---------------------------------------------------------------------- *)
(* C28  Engine moves are legal                                             *)
(* ---------------------------------------------------------------------- *)
\* the move is an element of the list getAllMoves builds for the position
generated(pos, mv) ==
    \E moves \in {getAllMoves(pos)} : \E i \in 1..Len(moves) : moves[i] = mv

\* C28: every move the consumer takes from the handoff slot and applies
\* with makeMove is a member of getAllMoves of the live position at the
\* moment it is applied; when the engine's side has no legal move, the poll
\* leaves the live board, the side to move and the castling flags alone.
EngineMovesLegal ==
    cpc = "it_apply" => generated(chess, engineMoveLocal)

\* what does hold: the applied move is a generated move of the live
\* position, or the position has no move and the zeroed Move is applied
EngineMovesLegalOrZeroed ==
    cpc = "it_apply" =>
       \/ generated(chess, engineMoveLocal)
       \/ Len(getAllMoves(chess)) = 0 /\ engineMoveLocal = emptyMove

\* the poll applies the zeroed Move to a position without a legal move
\* and the side to move changes
ZeroedMoveApplied ==
    /\ EngineMoveApplied
    /\ Len(getAllMoves(chess)) = 0
    /\ chess'.whiteToMove # chess.whiteToMove

\* the poll never changes the side to move of a finished game
FinishedGameUntouched == [][~ZeroedMoveApplied]_vars

(* ---------------------------------------------------------------------- *)
(* C29  Strict alternation in the live game                                *)
(* ---------------------------------------------------------------------- *)
\* engine results applied to the live position so far: those a poll has
\* taken, less the one taken but not yet applied
engineMoves ==
    Len(delivered) - (IF engineReady /\ cpc \in {"it_unlock", "it_apply"} THEN 1 ELSE 0)

HumanMoveApplied == humanMoves' # humanMoves

\* what makeMove writes: the board, the side to move, the castling flags
\* and the en passant column (the selection is the click handler's)
played(pos) == <<pos.board, pos.whiteToMove, flagsOf(pos), pos.enPassantCol>>

AlternationStep ==
    /\ HumanMoveApplied =>
          /\ chess.whiteToMove /\ ~chess'.whiteToMove
          /\ humanMoves = engineMoves /\ humanMoves' = humanMoves + 1
          /\ ~EngineMoveApplied
    /\ EngineMoveApplied =>
          /\ ~chess.whiteToMove /\ chess'.whiteToMove
          /\ humanMoves = engineMoves + 1
    /\ played(chess') # played(chess) => HumanMoveApplied \/ EngineMoveApplied

\* C29: the makeMove calls on the live position strictly alternate between
\* an accepted human move, made with white to move, and an applied engine
\* result, made with black to move, starting with a human move: white is to
\* move exactly when as many engine results as human moves have been
\* applied, black exactly when one human move is unanswered, and nothing
\* else changes the live position.
StrictAlternation ==
    /\ [](humanMoves - engineMoves \in {0, 1})
    /\ [](chess.whiteToMove <=> humanMoves = engineMoves)
    /\ [][AlternationStep]_vars

\* human, engine, human, engine: two moves of each have been applied and
\* white is to move again
StrictAlternationWitness ==
    /\ humanMoves = 2 /\ engineMoves = 2
    /\ cpc = "idle"
    /\ chess.whiteToMove

(* ---------------------------------------------------------------------- *)
(* C30  Castling needs the original rook                                   *)
(* ---------------------------------------------------------------------- *)
homeRow(white) == IF white THEN 0 ELSE 7

cornerCol(wing) == IF wing = 0 THEN 7 ELSE 0

castledFlag(pos, white, wing) ==
    IF white THEN pos.hasCastledWhite[wing] ELSE pos.hasCastledBlack[wing]

\* a move of the walk has captured the side's rook on the wing's home
\* corner while the wing's flag was still clear: the rook had never moved
lostOriginalRook(white, wing) ==
    \E k \in 1..Len(frames) : \E f \in {frames[k]} :
       /\ f.before.whiteToMove # white
       /\ f.m.toRow = homeRow(white) /\ f.m.toCol = cornerCol(wing)
       /\ f.before.board[homeRow(white)][cornerCol(wing)] =
             (IF white THEN WHITE_ROOK ELSE BLACK_ROOK)
       /\ ~castledFlag(f.before, white, wing)

\* getAllMoves offers the side castling on the wing
castles(pos, white, wing) ==
    /\ pos.whiteToMove = white
    /\ pos.board[homeRow(white)][4] = (IF white THEN WHITE_KING ELSE BLACK_KING)
    /\ generated(pos, classify(pos, homeRow(white), 4, homeRow(white),
                               IF wing = 0 THEN 6 ELSE 2))

\* C30: once a side's original rook has been captured on its home corner
\* without having moved, the side cannot castle on that wing, neither in
\* the position reached nor after the opponent's next move, even if its
\* other rook has come to stand on that corner with the king unmoved.
OriginalRookNeeded ==
    \A white \in BOOLEAN : \A wing \in 0..1 :
       lostOriginalRook(white, wing) =>
          /\ ~castles(snapshot, white, wing)
          /\ snapshot.whiteToMove # white =>
                \E moves \in {getAllMoves(snapshot)} : \A i \in 1..Len(moves) :
                   ~castles(makeMove(snapshot, moves[i]), white, wing)

\* the capture on the corner leaves the wing's flag clear
CaptureOnCornerKeepsFlag ==
    \A white \in BOOLEAN : \A wing \in 0..1 :
       (Len(frames) = 1 /\ lostOriginalRook(white, wing)) =>
          ~castledFlag(snapshot, white, wing)

====
